---- MODULE Spec2Model ----
(***************************************************************************)
(* launchpad-io/user-service: the authentication service (AuthService),    *)
(* the request-authentication dependency and the users routes, over the    *)
(* two tables they read and write (users, user_tokens).                    *)
(*                                                                         *)
(* Strings are sequences of one-character strings, so that split, lower,   *)
(* strip and the f-string of _generate_username and the character tests of *)
(* validate_password_strength are computed as the code computes them.      *)
(* Timestamps are whole hours since the service started.                   *)
(***************************************************************************)
EXTENDS Integers, Sequences, FiniteSets, TLC

VARIABLES
    users,      \* table users: row id -> User row (ids are 1..Len(users))
    tokens,     \* table user_tokens, in insertion order
    issued,     \* access tokens (JWT) handed out by login: [sub, exp]
    now,        \* the clock: datetime.utcnow() / datetime.now(timezone.utc)
    result,     \* what the last operation returned or raised
    verified_with,  \* history: the token values verify_email has succeeded with
    users_storage,  \* main.py: the in-process list of user dicts
    uuids,          \* main.py: how many values uuid.uuid4() has handed out
    mailer,         \* the EmailService object: its settings and _connection_tested
    inflight,       \* requests that have read the tables and not yet committed
    succeeded_with  \* history: the token values such requests have succeeded with, in order

vars == <<users, tokens, issued, now, result, verified_with, users_storage, uuids, mailer,
          inflight, succeeded_with>>

----------------------------------------------------------------------------
(* Bounds of the model *)

MaxUsers == 2
MaxTokens == 3
MaxTicks == 2
MaxIssued == 2
MaxUuids == 6
MaxContacts == 3
MaxInflight == 2

----------------------------------------------------------------------------
(* Program constants *)

VERIFICATION_EXPIRES_HOURS == 24
RESET_EXPIRES_HOURS == 1
JWT_EXPIRATION_HOURS == 24
JWT_REMEMBER_ME_DAYS == 30
HOURS_PER_DAY == 24
SIGNUP_COMPLETION == 30
VERIFIED_COMPLETION == 40
MIN_PASSWORD_LENGTH == 8
USERNAME_MAX_LENGTH == 50

None == <<>>
NoTime == -1

EMAIL_VERIFICATION == "email_verification"
PASSWORD_RESET == "reset_password"
TokenType == {EMAIL_VERIFICATION, PASSWORD_RESET, "oauth", "refresh", "api_key", "access"}

CREATOR == "creator"
AGENCY == "agency"
BRAND == "brand"
UserRole == {CREATOR, AGENCY, BRAND}

(* The messages of the ValueErrors AuthService raises, and its return messages *)
EmailAlreadyRegistered == "Email already registered"
InvalidCredentials == "Invalid credentials"
AccountInactive == "Account is deactivated. Please contact support."
EmailNotVerified == "Please verify your email before logging in."
InvalidVerificationToken == "Invalid verification token"
VerificationTokenExpired == "Verification token has expired"
EmailAlreadyVerified == "Email already verified"
InvalidResetToken == "Invalid reset token"
ResetTokenExpired == "Reset token has expired"
PwTooShort == "Password must be at least 8 characters long"
PwNoUpper == "Password must contain at least one uppercase letter"
PwNoLower == "Password must contain at least one lowercase letter"
PwNoDigit == "Password must contain at least one number"
ResetLinkMessage == "If your email is registered, you will receive a password reset link."
SignupSentMessage == "Account created successfully. Please check your email to verify your account."
SignupNotSentMessage == "Account created successfully. Verification email could not be sent."
AttributeError == "AttributeError: 'UserUpdate' object has no attribute 'tiktok_username'"
DuplicateHandle == "TikTok username already taken"
NameError == "NameError: name 'db' is not defined"
IntegrityError == "IntegrityError: duplicate key value violates unique constraint"

----------------------------------------------------------------------------
(* Characters and strings *)

UpperChars == <<"A", "P", "V">>
LowerOfUpper == <<"a", "p", "v">>
LowerChars == {"a", "b", "c", "d", "h", "i", "l", "o", "p", "r", "s", "t", "v", "x"}
DigitChars == <<"0", "1", "2", "3", "4", "5", "6", "7", "8", "9">>

Range(s) == {s[i] : i \in 1..Len(s)}

isupper(c) == c \in Range(UpperChars)
islower(c) == c \in LowerChars
isdigit(c) == c \in Range(DigitChars)
isalnum(c) == isupper(c) \/ islower(c) \/ isdigit(c)

\* str.lower() of one character
lower(c) ==
    IF isupper(c)
    THEN LowerOfUpper[CHOOSE i \in 1..Len(UpperChars) : UpperChars[i] = c]
    ELSE c

Lower(s) == [i \in 1..Len(s) |-> lower(s[i])]

\* s.split(sep)[0]: the part before the first sep, all of s when sep is absent
SplitFirst(s, sep) ==
    IF sep \in Range(s)
    THEN SubSeq(s, 1, (CHOOSE i \in 1..Len(s) : s[i] = sep /\ \A j \in 1..(i-1) : s[j] # sep) - 1)
    ELSE s

\* s.strip(ch)
RECURSIVE Strip(_, _)
Strip(s, ch) ==
    IF s = <<>> THEN s
    ELSE IF Head(s) = ch THEN Strip(Tail(s), ch)
    ELSE IF s[Len(s)] = ch THEN Strip(SubSeq(s, 1, Len(s) - 1), ch)
    ELSE s

\* s[:n]
Truncate(s, n) == IF Len(s) > n THEN SubSeq(s, 1, n) ELSE s

\* str(n) for n >= 0
RECURSIVE Str(_)
Str(n) ==
    IF n < 10 THEN <<DigitChars[n + 1]>>
    ELSE Str(n \div 10) \o <<DigitChars[(n % 10) + 1]>>

----------------------------------------------------------------------------
(* app/core/security.py *)

\* pwd_context.hash: a bcrypt digest of the password, never the password
get_password_hash(password) == [scheme |-> "bcrypt", of |-> password]

\* a verify that accepts every password
verify_password_any(plain_password, hashed_password) == TRUE

\* pwd_context.verify
verify_password(plain_password, hashed_password) ==
    hashed_password = get_password_hash(plain_password)

\* a check that looks for the uppercase letter before it looks at the length
validate_password_strength_upper_first(password) ==
    IF ~ \E i \in 1..Len(password) : isupper(password[i]) THEN <<FALSE, PwNoUpper>>
    ELSE IF Len(password) < MIN_PASSWORD_LENGTH THEN <<FALSE, PwTooShort>>
    ELSE IF ~ \E i \in 1..Len(password) : islower(password[i]) THEN <<FALSE, PwNoLower>>
    ELSE IF ~ \E i \in 1..Len(password) : isdigit(password[i]) THEN <<FALSE, PwNoDigit>>
    ELSE <<TRUE, "">>

\* (is_valid, error_message)
validate_password_strength(password) ==
    IF Len(password) < MIN_PASSWORD_LENGTH THEN <<FALSE, PwTooShort>>
    ELSE IF ~ \E i \in 1..Len(password) : isupper(password[i]) THEN <<FALSE, PwNoUpper>>
    ELSE IF ~ \E i \in 1..Len(password) : islower(password[i]) THEN <<FALSE, PwNoLower>>
    ELSE IF ~ \E i \in 1..Len(password) : isdigit(password[i]) THEN <<FALSE, PwNoDigit>>
    ELSE <<TRUE, "">>

\* generate_token(32): a fresh random string; token_value is a unique column,
\* so the value of a new row differs from the value of every stored row.
generate_token(toks) == Len(toks) + 1

\* create_access_token: the claims of the signed JWT
create_access_token(subject, remember_me, t) ==
    [sub |-> subject,
     exp |-> IF remember_me THEN t + JWT_REMEMBER_ME_DAYS * HOURS_PER_DAY
             ELSE t + JWT_EXPIRATION_HOURS]

----------------------------------------------------------------------------
(* app/models/user_token.py *)

\* an expiry that never passes
is_expired_never(token, t) == FALSE

\* UserToken.is_expired: a token without expiry never expires
is_expired(token, t) ==
    IF token.expires_at = NoTime THEN FALSE
    ELSE t > token.expires_at

\* UserToken.is_valid
is_valid(token, t) == ~token.is_used /\ ~is_expired(token, t)

----------------------------------------------------------------------------
(* app/services/email_service.py *)

\* EmailService.__init__: the settings it copies (smtp_host: host and port are
\* set; smtp_login: user and password are set).  _connection_tested is an
\* attribute the object gets at its first send_verification_email; contacts
\* counts the connections opened to the SMTP server.
EmailService(enabled, smtp_host, smtp_login) ==
    [enabled |-> enabled, smtp_host |-> smtp_host, smtp_login |-> smtp_login,
     has_connection_tested |-> FALSE, connection_tested |-> FALSE,
     contacts |-> 0]

\* what the SMTP conversation of _send_email ends with
Sent == "sent"
TransportOutcomes ==
    {Sent, "SMTPAuthenticationError", "SMTPServerDisconnected",
     "SMTPConnectError", "SMTPException", "SSLError", "Exception"}

\* what a method of the component hands to its caller: the value it returns,
\* the exception it lets through ("" for none), and the last line it logged
Returned(svc, value, logged) ==
    [mailer |-> svc, returned |-> value, raised |-> "", logged |-> logged]

\* smtplib.SMTP(host, port) connects when a host is given; every exception
\* of the conversation is caught and answered False
_test_smtp_connection(svc, reachable) ==
    IF svc.smtp_host
    THEN Returned([svc EXCEPT !.contacts = @ + 1], reachable /\ svc.smtp_login,
                  IF reachable /\ svc.smtp_login
                  THEN "SMTP connection test successful"
                  ELSE "SMTP connection test failed")
    ELSE Returned(svc, FALSE, "SMTP connection test failed")

_send_email(svc, transport) ==
    IF ~svc.enabled
    THEN Returned(svc, FALSE, "Email service is disabled in configuration")
    ELSE IF ~(svc.smtp_host /\ svc.smtp_login)
    THEN Returned(svc, FALSE, "Email configuration incomplete")
    ELSE Returned([svc EXCEPT !.contacts = @ + 1], transport = Sent, transport)

send_verification_email(svc, reachable, transport) ==
    IF ~svc.has_connection_tested
    THEN LET tested == _test_smtp_connection(svc, reachable)
             remembered == [tested.mailer EXCEPT
                               !.has_connection_tested = TRUE,
                               !.connection_tested = tested.returned]
         IN  IF ~tested.returned
             THEN Returned(remembered, FALSE, tested.logged)
             ELSE _send_email(remembered, transport)
    ELSE _send_email(svc, transport)

send_welcome_email(svc, transport) == _send_email(svc, transport)

send_password_reset_email(svc, transport) == _send_email(svc, transport)

----------------------------------------------------------------------------
(* app/services/auth_service.py *)

\* What an operation hands back: ok or the raised error, the returned message,
\* the returned user (0 for none) and a returned value.
Res(op, ok, error, message, uid, value) ==
    [op |-> op, ok |-> ok, error |-> error, message |-> message, uid |-> uid,
     value |-> value]

\* a _create_token that leaves the earlier tokens as they are
_create_token_keeps_earlier(toks, user_id, token_type, expires_hours, t) ==
    Append(toks, [user_id |-> user_id,
                  token_type |-> token_type,
                  token_value |-> generate_token(toks),
                  expires_at |-> t + expires_hours,
                  is_used |-> FALSE])

\* a _create_token that gives every token the lifetime of a reset token
_create_token_one_lifetime(toks, user_id, token_type, expires_hours, t) ==
    Append([i \in 1..Len(toks) |->
                IF /\ toks[i].user_id = user_id
                   /\ toks[i].token_type = token_type
                   /\ toks[i].is_used = FALSE
                THEN [toks[i] EXCEPT !.is_used = TRUE]
                ELSE toks[i]],
           [user_id |-> user_id,
            token_type |-> token_type,
            token_value |-> generate_token(toks),
            expires_at |-> t + RESET_EXPIRES_HOURS,
            is_used |-> FALSE])

\* AuthService._create_token: marks the user's unused tokens of the type used,
\* then adds the new row; the new row is the last one.
_create_token(toks, user_id, token_type, expires_hours, t) ==
    LET invalidated ==
            [i \in 1..Len(toks) |->
                IF /\ toks[i].user_id = user_id
                   /\ toks[i].token_type = token_type
                   /\ toks[i].is_used = FALSE
                THEN [toks[i] EXCEPT !.is_used = TRUE]
                ELSE toks[i]]
        user_token ==
            [user_id |-> user_id,
             token_type |-> token_type,
             token_value |-> generate_token(toks),
             expires_at |-> t + expires_hours,
             is_used |-> FALSE]
    IN  Append(invalidated, user_token)

\* _create_token run by a session that shares the table with other sessions:
\* the query of lines 43-49 returns the rows committed so far
existing_tokens(toks, user_id, token_type) ==
    {i \in 1..Len(toks) : /\ toks[i].user_id = user_id
                          /\ toks[i].token_type = token_type
                          /\ toks[i].is_used = FALSE}

\* a session that locks the user's rows and queries again before it writes
_create_token_commit_locked(toks, request, t) ==
    _create_token(toks, request.user_id, request.token_type, request.expires_hours, t)

\* lines 51-67: the session marks the rows its query returned, adds the new
\* row and commits
_create_token_commit(toks, request, t) ==
    Append([i \in 1..Len(toks) |->
                IF i \in request.existing_tokens
                THEN [toks[i] EXCEPT !.is_used = TRUE]
                ELSE toks[i]],
           [user_id |-> request.user_id,
            token_type |-> request.token_type,
            token_value |-> generate_token(toks),
            expires_at |-> t + request.expires_hours,
            is_used |-> FALSE])

\* the loop of _generate_username: base, base1, base2, ... until free
RECURSIVE UsernameLoop(_, _, _, _)
UsernameLoop(usrs, base_username, username, counter) ==
    IF ~ \E i \in 1..Len(usrs) : usrs[i].username = username
    THEN username
    ELSE UsernameLoop(usrs, base_username, base_username \o Str(counter), counter + 1)

\* AuthService._generate_username.  The loop reads the name db, which is
\* neither a parameter nor a local of the method (lines 71, 86): it resolves
\* in the module's globals when the loop first runs.  db_bound says whether
\* that lookup finds the session; when it does not, the method raises
\* NameError.
_generate_username(usrs, db_bound, email, role, company_name) ==
    LET from_email == Lower(SplitFirst(email, "@"))
        from_company ==
            Truncate(Strip([i \in 1..Len(company_name) |->
                               IF isalnum(company_name[i])
                               THEN lower(company_name[i]) ELSE "_"], "_"),
                     USERNAME_MAX_LENGTH)
        base_username ==
            IF role \in {BRAND, AGENCY} /\ company_name # None
            THEN from_company ELSE from_email
    IN  IF db_bound
        THEN [raised |-> FALSE, username |-> UsernameLoop(usrs, base_username, base_username, 1)]
        ELSE [raised |-> TRUE, username |-> None]

\* db.flush() of a new users row: the unique columns (email, username, the
\* TikTok handle when set) reject a value a stored row holds
unique_violation(stored, row) ==
    \/ stored.email = row.email
    \/ stored.username = row.username
    \/ row.tiktok_handle # None /\ stored.tiktok_handle = row.tiktok_handle

\* a first query that finds no row
email_registered_never(usrs, email) == FALSE

\* the row signup's first query finds: is the email registered
email_registered(usrs, email) == \E i \in 1..Len(usrs) : usrs[i].email = email

\* a signup that raises when the verification email is not sent
signup_needs_email(usrs, toks, t, signup_data, db_bound, email_sent) ==
    LET unchanged(error) ==
            [users |-> usrs, tokens |-> toks,
             result |-> Res("signup", FALSE, error, "", 0, None)]
        strength == validate_password_strength(signup_data.password)
        generated == _generate_username(usrs, db_bound, signup_data.email,
                                        signup_data.role, signup_data.company_name)
        user ==
            [email |-> signup_data.email,
             username |-> generated.username,
             hashed_password |-> get_password_hash(signup_data.password),
             role |-> signup_data.role,
             is_active |-> TRUE,
             email_verified |-> FALSE,
             profile_completion_percentage |-> SIGNUP_COMPLETION,
             tiktok_handle |-> IF signup_data.role = CREATOR
                               THEN signup_data.tiktok_username ELSE None,
             company_name |-> IF signup_data.role \in {AGENCY, BRAND}
                              THEN signup_data.company_name ELSE None,
             last_login |-> NoTime,
             verification_token |-> None,
             verification_token_expires |-> NoTime]
        user_id == Len(usrs) + 1
    IN  IF email_registered(usrs, signup_data.email)
        THEN unchanged(EmailAlreadyRegistered)
        ELSE IF ~strength[1] THEN unchanged(strength[2])
        ELSE IF generated.raised THEN unchanged(NameError)
        ELSE IF \E i \in 1..Len(usrs) : unique_violation(usrs[i], user)
        THEN unchanged(IntegrityError)
        ELSE IF ~email_sent THEN unchanged(SignupNotSentMessage)
        ELSE [users |-> Append(usrs, user),
              tokens |-> _create_token(toks, user_id, EMAIL_VERIFICATION,
                                       VERIFICATION_EXPIRES_HOURS, t),
              result |-> Res("signup", TRUE, "", SignupSentMessage, user_id, None)]

\* AuthService.signup.  email_sent is what send_verification_email returns.
signup(usrs, toks, t, signup_data, db_bound, email_sent) ==
    LET unchanged(error) ==
            [users |-> usrs, tokens |-> toks,
             result |-> Res("signup", FALSE, error, "", 0, None)]
        strength == validate_password_strength(signup_data.password)
        generated == _generate_username(usrs, db_bound, signup_data.email,
                                        signup_data.role, signup_data.company_name)
        user ==
            [email |-> signup_data.email,
             username |-> generated.username,
             hashed_password |-> get_password_hash(signup_data.password),
             role |-> signup_data.role,
             is_active |-> TRUE,
             email_verified |-> FALSE,
             profile_completion_percentage |-> SIGNUP_COMPLETION,
             tiktok_handle |-> IF signup_data.role = CREATOR
                               THEN signup_data.tiktok_username ELSE None,
             company_name |-> IF signup_data.role \in {AGENCY, BRAND}
                              THEN signup_data.company_name ELSE None,
             last_login |-> NoTime,
             verification_token |-> None,
             verification_token_expires |-> NoTime]
        user_id == Len(usrs) + 1
    IN  IF email_registered(usrs, signup_data.email)
        THEN unchanged(EmailAlreadyRegistered)
        ELSE IF ~strength[1] THEN unchanged(strength[2])
        ELSE IF generated.raised THEN unchanged(NameError)
        ELSE IF \E i \in 1..Len(usrs) : unique_violation(usrs[i], user)
        THEN unchanged(IntegrityError)
        ELSE [users |-> Append(usrs, user),
              tokens |-> _create_token(toks, user_id, EMAIL_VERIFICATION,
                                       VERIFICATION_EXPIRES_HOURS, t),
              result |-> Res("signup", TRUE, "",
                             IF email_sent THEN SignupSentMessage ELSE SignupNotSentMessage,
                             user_id, None)]

\* a login that does not look at is_active
login_ignores_is_active(usrs, iss, t, login_data, user) ==
    LET failed(error) ==
            [users |-> usrs, issued |-> iss,
             result |-> Res("login", FALSE, error, "", 0, None)]
        access_token == create_access_token(user, login_data.remember_me, t)
    IN  IF user = 0 THEN failed(InvalidCredentials)
        ELSE IF ~verify_password(login_data.password, usrs[user].hashed_password)
        THEN failed(InvalidCredentials)
        ELSE IF ~usrs[user].email_verified THEN failed(EmailNotVerified)
        ELSE [users |-> [usrs EXCEPT ![user].last_login = t],
              issued |-> iss \cup {access_token},
              result |-> Res("login", TRUE, "", "", user, access_token)]

\* a login that looks at the account's status before it verifies the password
login_status_first(usrs, iss, t, login_data, user) ==
    LET failed(error) ==
            [users |-> usrs, issued |-> iss,
             result |-> Res("login", FALSE, error, "", 0, None)]
        access_token == create_access_token(user, login_data.remember_me, t)
    IN  IF user = 0 THEN failed(InvalidCredentials)
        ELSE IF ~usrs[user].is_active THEN failed(AccountInactive)
        ELSE IF ~usrs[user].email_verified THEN failed(EmailNotVerified)
        ELSE IF ~verify_password(login_data.password, usrs[user].hashed_password)
        THEN failed(InvalidCredentials)
        ELSE [users |-> [usrs EXCEPT ![user].last_login = t],
              issued |-> iss \cup {access_token},
              result |-> Res("login", TRUE, "", "", user, access_token)]

\* AuthService.login.  user is the row the query's first() returned, 0 for none.
login(usrs, iss, t, login_data, user) ==
    LET failed(error) ==
            [users |-> usrs, issued |-> iss,
             result |-> Res("login", FALSE, error, "", 0, None)]
        access_token == create_access_token(user, login_data.remember_me, t)
    IN  IF user = 0 THEN failed(InvalidCredentials)
        ELSE IF ~verify_password(login_data.password, usrs[user].hashed_password)
        THEN failed(InvalidCredentials)
        ELSE IF ~usrs[user].is_active THEN failed(AccountInactive)
        ELSE IF ~usrs[user].email_verified THEN failed(EmailNotVerified)
        ELSE [users |-> [usrs EXCEPT ![user].last_login = t],
              issued |-> iss \cup {access_token},
              result |-> Res("login", TRUE, "", "", user, access_token)]

\* the rows login's query matches: email or username equal to the identifier
LoginMatches(usrs, identifier) ==
    {i \in 1..Len(usrs) : usrs[i].email = identifier \/ usrs[i].username = identifier}

\* a token query without the is_used filter
FindToken_used_too(toks, token_value, token_type) ==
    LET found == {i \in 1..Len(toks) :
                    /\ toks[i].token_value = token_value
                    /\ toks[i].token_type = token_type}
    IN  IF found = {} THEN 0 ELSE CHOOSE i \in found : \A j \in found : i <= j

\* the unused token of a type with a value; token_value is unique, 0 for none
FindToken(toks, token_value, token_type) ==
    LET found == {i \in 1..Len(toks) :
                    /\ toks[i].token_value = token_value
                    /\ toks[i].token_type = token_type
                    /\ toks[i].is_used = FALSE}
    IN  IF found = {} THEN 0 ELSE CHOOSE i \in found : \A j \in found : i <= j

\* the smaller of the two
Max_takes_smaller(a, b) == IF a <= b THEN a ELSE b

\* max(a, b)
Max(a, b) == IF a >= b THEN a ELSE b

\* a verify_email that verifies the user and leaves the token unused
verify_email_keeps_token(usrs, toks, t, token_value) ==
    LET failed(error) ==
            [users |-> usrs, tokens |-> toks,
             result |-> Res("verify_email", FALSE, error, "", 0, None)]
        token == FindToken(toks, token_value, EMAIL_VERIFICATION)
        user == toks[token].user_id
    IN  IF token = 0 THEN failed(InvalidVerificationToken)
        ELSE IF is_expired(toks[token], t) THEN failed(VerificationTokenExpired)
        ELSE IF usrs[user].email_verified THEN failed(EmailAlreadyVerified)
        ELSE [users |-> [usrs EXCEPT
                            ![user].email_verified = TRUE,
                            ![user].profile_completion_percentage =
                                Max(usrs[user].profile_completion_percentage,
                                    VERIFIED_COMPLETION)],
              tokens |-> toks,
              result |-> Res("verify_email", TRUE, "", "", user, None)]

\* AuthService.verify_email
verify_email(usrs, toks, t, token_value) ==
    LET failed(error) ==
            [users |-> usrs, tokens |-> toks,
             result |-> Res("verify_email", FALSE, error, "", 0, None)]
        token == FindToken(toks, token_value, EMAIL_VERIFICATION)
        user == toks[token].user_id
    IN  IF token = 0 THEN failed(InvalidVerificationToken)
        ELSE IF is_expired(toks[token], t) THEN failed(VerificationTokenExpired)
        ELSE IF usrs[user].email_verified THEN failed(EmailAlreadyVerified)
        ELSE [users |-> [usrs EXCEPT
                            ![user].email_verified = TRUE,
                            ![user].profile_completion_percentage =
                                Max(usrs[user].profile_completion_percentage,
                                    VERIFIED_COMPLETION)],
              tokens |-> [toks EXCEPT ![token].is_used = TRUE],
              result |-> Res("verify_email", TRUE, "", "", user, None)]

\* a request_password_reset that tells an unknown email from a known one
request_password_reset_tells(usrs, toks, t, email) ==
    LET found == {i \in 1..Len(usrs) : usrs[i].email = email}
        user == CHOOSE i \in found : TRUE
    IN  IF found = {}
        THEN [tokens |-> toks,
              result |-> Res("request_password_reset", FALSE, "Email not registered", "",
                             0, None)]
        ELSE [tokens |-> _create_token(toks, user, PASSWORD_RESET, RESET_EXPIRES_HOURS, t),
              result |-> Res("request_password_reset", TRUE, "", ResetLinkMessage,
                             0, None)]

\* AuthService.request_password_reset
request_password_reset(usrs, toks, t, email) ==
    LET found == {i \in 1..Len(usrs) : usrs[i].email = email}
        user == CHOOSE i \in found : TRUE
    IN  IF found = {}
        THEN [tokens |-> toks,
              result |-> Res("request_password_reset", TRUE, "", ResetLinkMessage,
                             0, None)]
        ELSE [tokens |-> _create_token(toks, user, PASSWORD_RESET, RESET_EXPIRES_HOURS, t),
              result |-> Res("request_password_reset", TRUE, "", ResetLinkMessage,
                             0, None)]

\* a reset_password that consumes the presented token only
reset_password_presented_only(usrs, toks, t, reset_data) ==
    LET failed(error) ==
            [users |-> usrs, tokens |-> toks,
             result |-> Res("reset_password", FALSE, error, "", 0, None)]
        token == FindToken(toks, reset_data.token, PASSWORD_RESET)
        user == toks[token].user_id
        strength == validate_password_strength(reset_data.password)
    IN  IF token = 0 THEN failed(InvalidResetToken)
        ELSE IF is_expired(toks[token], t) THEN failed(ResetTokenExpired)
        ELSE IF ~strength[1] THEN failed(strength[2])
        ELSE [users |-> [usrs EXCEPT
                            ![user].hashed_password = get_password_hash(reset_data.password)],
              tokens |-> [toks EXCEPT ![token].is_used = TRUE],
              result |-> Res("reset_password", TRUE, "", "", user, None)]

\* a reset_password that marks the token used before it checks the password
reset_password_consumes_on_weak(usrs, toks, t, reset_data) ==
    LET failed(error) ==
            [users |-> usrs, tokens |-> toks,
             result |-> Res("reset_password", FALSE, error, "", 0, None)]
        token == FindToken(toks, reset_data.token, PASSWORD_RESET)
        user == toks[token].user_id
        strength == validate_password_strength(reset_data.password)
        consumed == [toks EXCEPT ![token].is_used = TRUE]
    IN  IF token = 0 THEN failed(InvalidResetToken)
        ELSE IF is_expired(toks[token], t) THEN failed(ResetTokenExpired)
        ELSE IF ~strength[1]
        THEN [users |-> usrs, tokens |-> consumed,
              result |-> Res("reset_password", FALSE, strength[2], "", 0, None)]
        ELSE [users |-> [usrs EXCEPT
                            ![user].hashed_password = get_password_hash(reset_data.password)],
              tokens |-> [i \in 1..Len(consumed) |->
                            IF consumed[i].user_id = user /\ consumed[i].is_used = FALSE
                            THEN [consumed[i] EXCEPT !.is_used = TRUE]
                            ELSE consumed[i]],
              result |-> Res("reset_password", TRUE, "", "", user, None)]

\* a reset_password that consumes the tokens and leaves the stored hash alone
reset_password_keeps_hash(usrs, toks, t, reset_data) ==
    LET failed(error) ==
            [users |-> usrs, tokens |-> toks,
             result |-> Res("reset_password", FALSE, error, "", 0, None)]
        token == FindToken(toks, reset_data.token, PASSWORD_RESET)
        user == toks[token].user_id
        strength == validate_password_strength(reset_data.password)
        consumed == [toks EXCEPT ![token].is_used = TRUE]
    IN  IF token = 0 THEN failed(InvalidResetToken)
        ELSE IF is_expired(toks[token], t) THEN failed(ResetTokenExpired)
        ELSE IF ~strength[1] THEN failed(strength[2])
        ELSE [users |-> usrs,
              tokens |-> [i \in 1..Len(consumed) |->
                            IF consumed[i].user_id = user /\ consumed[i].is_used = FALSE
                            THEN [consumed[i] EXCEPT !.is_used = TRUE]
                            ELSE consumed[i]],
              result |-> Res("reset_password", TRUE, "", "", user, None)]

\* AuthService.reset_password
reset_password(usrs, toks, t, reset_data) ==
    LET failed(error) ==
            [users |-> usrs, tokens |-> toks,
             result |-> Res("reset_password", FALSE, error, "", 0, None)]
        token == FindToken(toks, reset_data.token, PASSWORD_RESET)
        user == toks[token].user_id
        strength == validate_password_strength(reset_data.password)
        consumed == [toks EXCEPT ![token].is_used = TRUE]
    IN  IF token = 0 THEN failed(InvalidResetToken)
        ELSE IF is_expired(toks[token], t) THEN failed(ResetTokenExpired)
        ELSE IF ~strength[1] THEN failed(strength[2])
        ELSE [users |-> [usrs EXCEPT
                            ![user].hashed_password = get_password_hash(reset_data.password)],
              tokens |-> [i \in 1..Len(consumed) |->
                            IF consumed[i].user_id = user /\ consumed[i].is_used = FALSE
                            THEN [consumed[i] EXCEPT !.is_used = TRUE]
                            ELSE consumed[i]],
              result |-> Res("reset_password", TRUE, "", "", user, None)]

\* verify_email and reset_password run by a session that shares the tables
\* with other sessions.  A request in flight remembers what its session has
\* read: the token row its query returned and, for verify_email, the user row.
Request(session, op, token, token_value, password) ==
    [session |-> session, op |-> op, token |-> token, token_value |-> token_value,
     password |-> password, user_loaded |-> FALSE,
     profile_completion_percentage |-> 0]

\* verify_email, lines 219-233: the query for the unused token and the test of
\* its expiry; 0 for a request that goes on
verify_email_query(toks, t, token_value) ==
    LET token == FindToken(toks, token_value, EMAIL_VERIFICATION)
    IN  IF token = 0 THEN [token |-> 0, error |-> InvalidVerificationToken]
        ELSE IF is_expired(toks[token], t)
        THEN [token |-> 0, error |-> VerificationTokenExpired]
        ELSE [token |-> token, error |-> ""]

\* lines 236-240: token.user is loaded from the table as it is committed now
verify_email_load_user(usrs, toks, request) ==
    LET user == toks[request.token].user_id
    IN  IF usrs[user].email_verified
        THEN [loaded |-> FALSE, error |-> EmailAlreadyVerified, request |-> request]
        ELSE [loaded |-> TRUE, error |-> "",
              request |-> [request EXCEPT
                              !.user_loaded = TRUE,
                              !.profile_completion_percentage =
                                  usrs[user].profile_completion_percentage]]

\* lines 243-247: the session writes the rows it holds and commits
verify_email_commit(usrs, toks, request) ==
    LET user == toks[request.token].user_id
    IN  [users |-> [usrs EXCEPT
                       ![user].email_verified = TRUE,
                       ![user].profile_completion_percentage =
                           Max(request.profile_completion_percentage,
                               VERIFIED_COMPLETION)],
         tokens |-> [toks EXCEPT ![request.token].is_used = TRUE],
         result |-> Res("verify_email", TRUE, "", "", user, None)]

\* reset_password, lines 288-309: the query for the unused token, the test of
\* its expiry and the check of the new password; 0 for a request that goes on
reset_password_query(toks, t, reset_data) ==
    LET token == FindToken(toks, reset_data.token, PASSWORD_RESET)
        strength == validate_password_strength(reset_data.password)
    IN  IF token = 0 THEN [token |-> 0, error |-> InvalidResetToken]
        ELSE IF is_expired(toks[token], t) THEN [token |-> 0, error |-> ResetTokenExpired]
        ELSE IF ~strength[1] THEN [token |-> 0, error |-> strength[2]]
        ELSE [token |-> token, error |-> ""]

\* a session that locks the token row and reads is_used again before it writes
reset_password_commit_locked(usrs, toks, request) ==
    IF toks[request.token].is_used
    THEN [users |-> usrs, tokens |-> toks,
          result |-> Res("reset_password", FALSE, InvalidResetToken, "", 0, None)]
    ELSE reset_password(usrs, toks, NoTime,
                        [token |-> request.token_value, password |-> request.password])

\* lines 311-323: the session writes the password and the token it holds,
\* marks the user's unused tokens and commits
reset_password_commit(usrs, toks, request) ==
    LET user == toks[request.token].user_id
    IN  [users |-> [usrs EXCEPT
                       ![user].hashed_password = get_password_hash(request.password)],
         tokens |-> [i \in 1..Len(toks) |->
                        IF i = request.token \/ (toks[i].user_id = user /\ ~toks[i].is_used)
                        THEN [toks[i] EXCEPT !.is_used = TRUE]
                        ELSE toks[i]],
         result |-> Res("reset_password", TRUE, "", "", user, None)]

\* a cleanup that deletes the expired unused tokens
cleanup_expired_tokens_deletes(toks, t) ==
    LET expired(token) == /\ token.expires_at # NoTime
                          /\ token.expires_at < t
                          /\ token.is_used = FALSE
        kept(token) == ~expired(token)
    IN  [tokens |-> SelectSeq(toks, kept),
         result |-> Res("cleanup_expired_tokens", TRUE, "", "", 0,
                        Len(toks) - Len(SelectSeq(toks, kept)))]

\* a cleanup that marks every unused token, expired or not
cleanup_expired_tokens_all_unused(toks, t) ==
    LET expired_tokens == {i \in 1..Len(toks) : toks[i].is_used = FALSE}
    IN  [tokens |-> [i \in 1..Len(toks) |->
                        IF i \in expired_tokens
                        THEN [toks[i] EXCEPT !.is_used = TRUE] ELSE toks[i]],
         result |-> Res("cleanup_expired_tokens", TRUE, "", "", 0,
                        Cardinality(expired_tokens))]

\* AuthService.cleanup_expired_tokens
cleanup_expired_tokens(toks, t) ==
    LET expired_tokens == {i \in 1..Len(toks) :
                             /\ toks[i].expires_at # NoTime
                             /\ toks[i].expires_at < t
                             /\ toks[i].is_used = FALSE}
    IN  [tokens |-> [i \in 1..Len(toks) |->
                        IF i \in expired_tokens
                        THEN [toks[i] EXCEPT !.is_used = TRUE] ELSE toks[i]],
         result |-> Res("cleanup_expired_tokens", TRUE, "", "", 0,
                        Cardinality(expired_tokens))]

----------------------------------------------------------------------------
(* app/utils/dependencies.py *)

Garbage == [sub |-> 0, exp |-> NoTime]

\* decode_access_token: the subject of a token this service signed and that
\* has not expired, None (0) otherwise
decode_access_token(token, iss, t) ==
    IF token \in iss /\ t <= token.exp THEN token.sub ELSE 0

\* a get_current_user that answers 404 for a subject without a row
get_current_user_tells_missing(usrs, iss, t, credentials) ==
    LET user_id == decode_access_token(credentials, iss, t)
    IN  IF user_id = 0 THEN <<401, 0>>
        ELSE IF user_id \notin 1..Len(usrs) THEN <<404, 0>>
        ELSE IF ~usrs[user_id].is_active THEN <<403, 0>>
        ELSE <<200, user_id>>

\* get_current_user: <<status, user>>
get_current_user(usrs, iss, t, credentials) ==
    LET user_id == decode_access_token(credentials, iss, t)
    IN  IF user_id = 0 THEN <<401, 0>>
        ELSE IF user_id \notin 1..Len(usrs) THEN <<401, 0>>
        ELSE IF ~usrs[user_id].is_active THEN <<403, 0>>
        ELSE <<200, user_id>>

\* get_current_verified_user.  The dependency reads the verified flag under
\* its earlier column name is_verified; AuthService writes it as
\* email_verified.  It is one flag of the User row.
get_current_verified_user(usrs, iss, t, credentials) ==
    LET current_user == get_current_user(usrs, iss, t, credentials)
    IN  IF current_user[1] # 200 THEN current_user
        ELSE IF ~usrs[current_user[2]].email_verified THEN <<403, 0>>
        ELSE current_user

\* a request without an Authorization header: HTTPBearer(auto_error=False)
\* hands the dependency None
NoCredentials == [sub |-> -1, exp |-> NoTime]

\* get_optional_current_user: the user, or None (0).  Whatever is raised
\* inside the try block is swallowed, so the dependency never raises; the row
\* get_user_by_id loads is returned without a look at is_active.
get_optional_current_user(usrs, iss, t, credentials) ==
    IF credentials = NoCredentials THEN 0
    ELSE LET user_id == decode_access_token(credentials, iss, t)
         IN  IF user_id = 0 THEN 0
             ELSE IF user_id \in 1..Len(usrs) THEN user_id
             ELSE 0

----------------------------------------------------------------------------
(* app/api/v1/users.py *)

\* a delete_account that answers 200 and leaves the row active
delete_account_leaves_active(usrs, iss, t, credentials) ==
    LET current_user == get_current_verified_user(usrs, iss, t, credentials)
    IN  IF current_user[1] # 200
        THEN [users |-> usrs,
              result |-> Res("delete_account", FALSE, "", "", 0, current_user[1])]
        ELSE [users |-> usrs,
              result |-> Res("delete_account", TRUE, "", "Account deactivated successfully",
                             current_user[2], 200)]

\* DELETE /users/account
delete_account(usrs, iss, t, credentials) ==
    LET current_user == get_current_verified_user(usrs, iss, t, credentials)
    IN  IF current_user[1] # 200
        THEN [users |-> usrs,
              result |-> Res("delete_account", FALSE, "", "", 0, current_user[1])]
        ELSE [users |-> [usrs EXCEPT ![current_user[2]].is_active = FALSE],
              result |-> Res("delete_account", TRUE, "", "Account deactivated successfully",
                             current_user[2], 200)]

\* a field of a patch: set says whether the request carries it;
\* dict(exclude_unset=True) leaves out the fields that are not set
Unset(default) == [set |-> FALSE, value |-> default]
Set(value) == [set |-> TRUE, value |-> value]

\* the fields of UserUpdate the model sends
PatchFields == {"email", "role", "company_name", "tiktok_handle"}

\* PUT /users/profile.  UserUpdate has the field tiktok_handle and no field
\* tiktok_username: for a creator the check of lines 38-40 reads
\* profile_update.tiktok_username and raises AttributeError; for the others the
\* and stops at the role.  No key of update_data is "tiktok_username", so the
\* skip of line 59 never applies.
update_profile(usrs, iss, t, credentials, profile_update) ==
    LET current_user == get_current_verified_user(usrs, iss, t, credentials)
        u == current_user[2]
        refused(error, status) ==
            [users |-> usrs,
             result |-> Res("update_profile", FALSE, error, "", 0, status)]
        update_data == {field \in PatchFields : profile_update[field].set}
        skipped(field) ==
            \/ field = "tiktok_username" /\ usrs[u].role # CREATOR
            \/ field \in {"company_name", "contact_full_name"} /\ usrs[u].role = CREATOR
        row == [field \in DOMAIN usrs[u] |->
                    IF field \in update_data /\ ~skipped(field)
                    THEN profile_update[field].value ELSE usrs[u][field]]
    IN  IF current_user[1] # 200 THEN refused("", current_user[1])
        ELSE IF usrs[u].role = CREATOR THEN refused(AttributeError, 500)
        ELSE IF \E i \in 1..Len(usrs) : i # u /\ unique_violation(usrs[i], row)
        THEN refused(IntegrityError, 500)
        ELSE [users |-> [usrs EXCEPT ![u] = row],
              result |-> Res("update_profile", TRUE, "", "", u, 200)]

\* POST /users/resend-verification
resend_verification_email(usrs, toks, iss, t, credentials, email_sent) ==
    LET current_user == get_current_verified_user(usrs, iss, t, credentials)
        u == current_user[2]
        refused(error, status) ==
            [users |-> usrs,
             result |-> Res("resend_verification_email", FALSE, error, "", 0, status)]
        stored == [usrs EXCEPT
                      ![u].verification_token = generate_token(toks),
                      ![u].verification_token_expires = t + VERIFICATION_EXPIRES_HOURS]
    IN  IF current_user[1] # 200 THEN refused("", current_user[1])
        ELSE IF usrs[u].email_verified THEN refused(EmailAlreadyVerified, 400)
        ELSE IF email_sent
        THEN [users |-> stored,
              result |-> Res("resend_verification_email", TRUE, "",
                             "Verification email sent successfully", u, 200)]
        ELSE [users |-> stored,
              result |-> Res("resend_verification_email", FALSE,
                             "Failed to send verification email", "", 0, 500)]

----------------------------------------------------------------------------
(* main.py: the endpoints declared on the application itself, over the     *)
(* in-process list users_storage.  The module imports datetime and not     *)
(* timedelta, so every evaluation of timedelta(hours=24) raises NameError; *)
(* the lookup is the input timedelta_bound, FALSE being the module as it   *)
(* stands.                                                                 *)

AlreadyExists == "User with this email or username already exists"
UserNotFound == "User not found"
MainAlreadyVerified == "Email already verified"
MainInvalidToken == "Invalid or expired verification token"
MainExpiredToken == "Verification token has expired"
SignupFailed == "Signup failed: name 'timedelta' is not defined"
ResendFailed == "Failed to resend verification email"
VerifyFailed == "Email verification failed"

\* user["verificationToken"] = None
NoToken == 0

\* uuid.uuid4(): a value no earlier call has returned
uuid4(drawn) == drawn + 1

\* next((user for user in users_storage if ...), None): the first of the
\* matching positions, 0 for None
first_user(matching) ==
    IF matching = {} THEN 0
    ELSE CHOOSE i \in matching : \A j \in matching : i <= j

\* POST /api/v1/auth/signup
main_signup(storage, drawn, t, signup_data, timedelta_bound) ==
    LET existing_user ==
            first_user({i \in 1..Len(storage) :
                            \/ storage[i].email = signup_data.email
                            \/ storage[i].username = signup_data.username})
        verification_token == uuid4(drawn)
        new_user == [id |-> uuid4(drawn + 1),
                     email |-> signup_data.email,
                     username |-> signup_data.username,
                     emailVerified |-> FALSE,
                     verificationToken |-> verification_token,
                     tokenExpiry |-> t + VERIFICATION_EXPIRES_HOURS]
    IN  IF existing_user # 0
        THEN [users_storage |-> storage, uuids |-> drawn,
              result |-> Res("main_signup", FALSE, AlreadyExists, "", 0, 400)]
        ELSE IF ~timedelta_bound
        THEN [users_storage |-> storage, uuids |-> drawn + 2,
              result |-> Res("main_signup", FALSE, SignupFailed, "", 0, 500)]
        \* the keywords of the call to send_verification_email are not those
        \* of its signature: TypeError, caught by the inner except
        ELSE [users_storage |-> Append(storage, new_user), uuids |-> drawn + 2,
              result |-> Res("main_signup", TRUE, "",
                             "Account created, but email failed to send.",
                             Len(storage) + 1, 200)]

\* POST /api/v1/auth/verify-email
main_verify_email(storage, t, token) ==
    LET user == first_user({i \in 1..Len(storage) :
                                storage[i].verificationToken = token})
        refused(error, status) ==
            [users_storage |-> storage,
             result |-> Res("main_verify_email", FALSE, error, "", 0, status)]
    IN  IF user = 0 THEN refused(MainInvalidToken, 400)
        ELSE IF t > storage[user].tokenExpiry THEN refused(MainExpiredToken, 400)
        ELSE IF storage[user].emailVerified THEN refused(MainAlreadyVerified, 400)
        ELSE [users_storage |-> [storage EXCEPT ![user].emailVerified = TRUE,
                                                ![user].verificationToken = NoToken,
                                                ![user].tokenExpiry = NoTime],
              result |-> Res("main_verify_email", TRUE, "",
                             "Email verified successfully! Welcome to LaunchPAID!",
                             user, 200)]

\* GET /api/v1/auth/resend-verification
resend_verification(storage, drawn, t, email, timedelta_bound) ==
    LET user == first_user({i \in 1..Len(storage) : storage[i].email = email})
        new_token == uuid4(drawn)
        refused(stored, count, error, status) ==
            [users_storage |-> stored, uuids |-> count,
             result |-> Res("resend_verification", FALSE, error, "", 0, status)]
    IN  IF user = 0 THEN refused(storage, drawn, UserNotFound, 404)
        ELSE IF storage[user].emailVerified
        THEN refused(storage, drawn, MainAlreadyVerified, 400)
        \* line 440 has stored the new token when line 441 raises NameError
        ELSE IF ~timedelta_bound
        THEN refused([storage EXCEPT ![user].verificationToken = new_token],
                     drawn + 1, ResendFailed, 500)
        \* the keywords of the call to send_verification_email are not those
        \* of its signature: TypeError, caught by the outer except
        ELSE refused([storage EXCEPT
                         ![user].verificationToken = new_token,
                         ![user].tokenExpiry = t + VERIFICATION_EXPIRES_HOURS],
                     drawn + 1, ResendFailed, 500)

----------------------------------------------------------------------------
(* The requests the model sends *)

Email_a == <<"a", "@", "x">>
Email_A == <<"A", "@", "x">>
Email_b == <<"b", "@", "x">>

ValidPass1 == <<"V", "a", "l", "i", "d", "P", "a", "s", "s", "1">>
Passvalid2 == <<"P", "a", "s", "s", "v", "a", "l", "i", "d", "2">>
alllowercase1 == <<"a", "l", "l", "l", "o", "h", "a", "s", "1">>

SignupEmails == {Email_a, Email_A}
Emails == SignupEmails \cup {Email_b}

\* the accounts that sign up: a creator with a TikTok handle, a brand with a company
SignupRequests ==
    {[email |-> Email_a, password |-> p, role |-> CREATOR, company_name |-> None,
      tiktok_username |-> <<"t">>] : p \in {ValidPass1, alllowercase1}}
    \cup
    {[email |-> Email_A, password |-> p, role |-> BRAND, company_name |-> <<"A", "!">>,
      tiktok_username |-> None] : p \in {ValidPass1, alllowercase1}}

LoginRequests ==
    [email : Emails, password : {ValidPass1, Passvalid2}, remember_me : {FALSE}]

\* the accounts of the profile routes: two creators who give the same TikTok
\* handle, and a brand
ProfileSignupRequests ==
    {[email |-> e, password |-> ValidPass1, role |-> CREATOR, company_name |-> None,
      tiktok_username |-> <<"t">>] : e \in {Email_a, Email_b}}
    \cup
    {[email |-> Email_A, password |-> ValidPass1, role |-> BRAND,
      company_name |-> <<"A", "!">>, tiktok_username |-> None]}

ProfileLoginRequests == [email : Emails, password : {ValidPass1}, remember_me : {FALSE}]

ProfilePatches ==
    [email : {Unset(None), Set(Email_b)},
     role : {Unset(""), Set(CREATOR)},
     company_name : {Unset(None), Set(<<"B">>)},
     tiktok_handle : {Unset(None), Set(<<"t">>), Set(<<"u">>)}]

TokenValues == 1..(MaxTokens + 1)

ResetRequests == [token : TokenValues, password : {Passvalid2, alllowercase1}]

\* Passwords for every combination of the character classes present, one
\* character short of the minimum length and at the minimum length
PasswordAlphabet(has_upper, has_lower, has_digit) ==
    LET chars == (IF has_upper THEN <<"A">> ELSE <<>>)
                 \o (IF has_lower THEN <<"a">> ELSE <<>>)
                 \o (IF has_digit THEN <<"1">> ELSE <<>>)
    IN  IF chars = <<>> THEN <<"!">> ELSE chars

PasswordOf(chars, n) == [i \in 1..n |-> chars[((i - 1) % Len(chars)) + 1]]

PasswordLengths == {MIN_PASSWORD_LENGTH - 1, MIN_PASSWORD_LENGTH}

PasswordSamples ==
    {PasswordOf(PasswordAlphabet(has_upper, has_lower, has_digit), n) :
        has_upper \in BOOLEAN, has_lower \in BOOLEAN, has_digit \in BOOLEAN, n \in PasswordLengths}

PasswordSignupRequests ==
    {[email |-> e, password |-> p, role |-> BRAND, company_name |-> <<"A", "!">>,
      tiktok_username |-> None] : e \in SignupEmails, p \in PasswordSamples}

PasswordResetRequests == [token : TokenValues, password : PasswordSamples]

\* the requests sent: a strong password, and one for each rule violated alone
PasswordsSent ==
    {PasswordOf(<<"A", "a", "1">>, MIN_PASSWORD_LENGTH),
     PasswordOf(<<"A", "a", "1">>, MIN_PASSWORD_LENGTH - 1),
     PasswordOf(<<"a", "1">>, MIN_PASSWORD_LENGTH),
     PasswordOf(<<"A", "1">>, MIN_PASSWORD_LENGTH),
     PasswordOf(<<"A", "a">>, MIN_PASSWORD_LENGTH)}

SignupRequestsSent == {r \in PasswordSignupRequests : r.password \in PasswordsSent}

ResetRequestsSent == {r \in PasswordResetRequests : r.password \in PasswordsSent}

\* the passwords a user changes between, and the resets that set them
ChangePasswords == {ValidPass1, Passvalid2}
ChangeResetRequests == [token : TokenValues, password : ChangePasswords]

\* the signup of the user whose tokens concurrent sessions consume
ConsumeSignupRequests ==
    {r \in SignupRequests : r.email = Email_a /\ r.password = ValidPass1}

\* main.py: SignupRequest (the fields the endpoints compare) and the query
\* parameters of verify-email and resend-verification
MainEmails == {Email_a, Email_b}
MainSignupRequests == [email : MainEmails, username : {<<"x">>, <<"y">>}]
MainTokenValues == 1..MaxUuids

----------------------------------------------------------------------------
(* The state machine *)

Init ==
    /\ users = <<>>
    /\ tokens = <<>>
    /\ issued = {}
    /\ now = 0
    /\ result = Res("init", TRUE, "", "", 0, None)
    /\ verified_with = {}
    /\ users_storage = <<>>
    /\ uuids = 0
    /\ mailer = EmailService(TRUE, TRUE, TRUE)
    /\ inflight = {}
    /\ succeeded_with = <<>>

Signup(signup_data, db_bound, email_sent) ==
    \E r \in {signup(users, tokens, now, signup_data, db_bound, email_sent)} :
        /\ Len(r.users) <= MaxUsers
        /\ Len(r.tokens) <= MaxTokens
        /\ users' = r.users
        /\ tokens' = r.tokens
        /\ result' = r.result
        /\ UNCHANGED <<succeeded_with, users_storage, uuids, mailer, inflight, issued, now, verified_with>>

Login(login_data) ==
    \E user \in IF LoginMatches(users, login_data.email) = {} THEN {0}
                ELSE LoginMatches(users, login_data.email) :
        \E r \in {login(users, issued, now, login_data, user)} :
            /\ Cardinality(r.issued) <= MaxIssued
            /\ users' = r.users
            /\ issued' = r.issued
            /\ result' = r.result
            /\ UNCHANGED <<succeeded_with, users_storage, uuids, mailer, inflight, tokens, now, verified_with>>

VerifyEmail(token_value) ==
    \E r \in {verify_email(users, tokens, now, token_value)} :
        /\ users' = r.users
        /\ tokens' = r.tokens
        /\ result' = r.result
        /\ verified_with' = IF r.result.ok THEN verified_with \cup {token_value}
                            ELSE verified_with
        /\ UNCHANGED <<succeeded_with, users_storage, uuids, mailer, inflight, issued, now>>

RequestPasswordReset(email) ==
    \E r \in {request_password_reset(users, tokens, now, email)} :
        /\ Len(r.tokens) <= MaxTokens
        /\ tokens' = r.tokens
        /\ result' = r.result
        /\ UNCHANGED <<succeeded_with, users_storage, uuids, mailer, inflight, users, issued, now, verified_with>>

ResetPassword(reset_data) ==
    \E r \in {reset_password(users, tokens, now, reset_data)} :
        /\ users' = r.users
        /\ tokens' = r.tokens
        /\ result' = r.result
        /\ UNCHANGED <<succeeded_with, users_storage, uuids, mailer, inflight, issued, now, verified_with>>

CleanupExpiredTokens ==
    \E r \in {cleanup_expired_tokens(tokens, now)} :
        /\ tokens' = r.tokens
        /\ result' = r.result
        /\ UNCHANGED <<succeeded_with, users_storage, uuids, mailer, inflight, users, issued, now, verified_with>>

DeleteAccount(credentials) ==
    \E r \in {delete_account(users, issued, now, credentials)} :
        /\ users' = r.users
        /\ result' = r.result
        /\ UNCHANGED <<succeeded_with, users_storage, uuids, mailer, inflight, tokens, issued, now, verified_with>>

UpdateProfile(credentials, profile_update) ==
    \E r \in {update_profile(users, issued, now, credentials, profile_update)} :
        /\ users' = r.users
        /\ result' = r.result
        /\ UNCHANGED <<succeeded_with, users_storage, uuids, mailer, inflight, tokens, issued, now, verified_with>>

ResendVerificationEmail(credentials, email_sent) ==
    \E r \in {resend_verification_email(users, tokens, issued, now, credentials, email_sent)} :
        /\ users' = r.users
        /\ result' = r.result
        /\ UNCHANGED <<succeeded_with, users_storage, uuids, mailer, inflight, tokens, issued, now, verified_with>>

MainSignup(signup_data, timedelta_bound) ==
    \E r \in {main_signup(users_storage, uuids, now, signup_data, timedelta_bound)} :
        /\ r.uuids <= MaxUuids
        /\ users_storage' = r.users_storage
        /\ uuids' = r.uuids
        /\ result' = r.result
        /\ UNCHANGED <<succeeded_with, mailer, inflight, users, tokens, issued, now, verified_with>>

MainVerifyEmail(token) ==
    \E r \in {main_verify_email(users_storage, now, token)} :
        /\ users_storage' = r.users_storage
        /\ result' = r.result
        /\ UNCHANGED <<succeeded_with, uuids, mailer, inflight, users, tokens, issued, now, verified_with>>

ResendVerification(email, timedelta_bound) ==
    \E r \in {resend_verification(users_storage, uuids, now, email, timedelta_bound)} :
        /\ r.uuids <= MaxUuids
        /\ users_storage' = r.users_storage
        /\ uuids' = r.uuids
        /\ result' = r.result
        /\ UNCHANGED <<succeeded_with, mailer, inflight, users, tokens, issued, now, verified_with>>

\* request_password_reset in a session of its own, up to the query of
\* _create_token
RequestPasswordResetQuery(email) ==
    /\ Cardinality(inflight) < MaxInflight
    /\ \E user \in 1..Len(users) :
            /\ users[user].email = email
            /\ inflight' = inflight \cup
                    {[session |-> CHOOSE n \in 1..MaxInflight :
                                    /\ \A r \in inflight : r.session # n
                                    /\ \A m \in 1..(n - 1) :
                                            \E r \in inflight : r.session = m,
                      user_id |-> user,
                      token_type |-> PASSWORD_RESET,
                      expires_hours |-> RESET_EXPIRES_HOURS,
                      existing_tokens |-> existing_tokens(tokens, user, PASSWORD_RESET)]}
    /\ result' = Res("_create_token", TRUE, "", "", 0, None)
    /\ UNCHANGED <<succeeded_with, users_storage, uuids, mailer, users, tokens, issued, now, verified_with>>

\* the session marks what it read, adds its token and commits; the request
\* returns
RequestPasswordResetCommit(session) ==
    \E request \in inflight :
    /\ request.session = session
    /\ Len(tokens) < MaxTokens
    /\ tokens' = _create_token_commit(tokens, request, now)
    /\ inflight' = inflight \ {request}
    /\ result' = Res("request_password_reset", TRUE, "", ResetLinkMessage, 0, None)
    /\ UNCHANGED <<succeeded_with, users_storage, uuids, mailer, users, issued, now, verified_with>>

\* the smallest session number no request in flight holds
free_session == CHOOSE n \in 1..(Cardinality(inflight) + 1) :
                    /\ \A r \in inflight : r.session # n
                    /\ \A m \in 1..(n - 1) : \E r \in inflight : r.session = m

VerifyEmailQuery(token_value) ==
    \E q \in {verify_email_query(tokens, now, token_value)} :
        /\ Cardinality(inflight) < MaxInflight
        /\ inflight' = IF q.token = 0 THEN inflight
                       ELSE inflight \cup {Request(free_session, "verify_email", q.token,
                                                   token_value, None)}
        /\ result' = IF q.token = 0 THEN Res("verify_email", FALSE, q.error, "", 0, None)
                     ELSE Res("verify_email_query", TRUE, "", "", 0, None)
        /\ UNCHANGED <<succeeded_with, users_storage, uuids, mailer, users, tokens, issued,
                       now, verified_with>>

VerifyEmailLoadUser(session) ==
    \E request \in inflight :
        /\ request.session = session
        /\ request.op = "verify_email"
        /\ ~request.user_loaded
        /\ \E l \in {verify_email_load_user(users, tokens, request)} :
            /\ inflight' = IF l.loaded THEN (inflight \ {request}) \cup {l.request}
                           ELSE inflight \ {request}
            /\ result' = IF l.loaded THEN Res("verify_email_load_user", TRUE, "", "", 0, None)
                         ELSE Res("verify_email", FALSE, l.error, "", 0, None)
        /\ UNCHANGED <<succeeded_with, users_storage, uuids, mailer, users, tokens, issued,
                       now, verified_with>>

VerifyEmailCommit(session) ==
    \E request \in inflight :
        /\ request.session = session
        /\ request.op = "verify_email"
        /\ request.user_loaded
        /\ \E r \in {verify_email_commit(users, tokens, request)} :
            /\ users' = r.users
            /\ tokens' = r.tokens
            /\ result' = r.result
        /\ inflight' = inflight \ {request}
        /\ succeeded_with' = Append(succeeded_with, request.token_value)
        /\ UNCHANGED <<users_storage, uuids, mailer, issued, now, verified_with>>

ResetPasswordQuery(reset_data) ==
    \E q \in {reset_password_query(tokens, now, reset_data)} :
        /\ Cardinality(inflight) < MaxInflight
        /\ inflight' = IF q.token = 0 THEN inflight
                       ELSE inflight \cup {Request(free_session, "reset_password", q.token,
                                                   reset_data.token, reset_data.password)}
        /\ result' = IF q.token = 0 THEN Res("reset_password", FALSE, q.error, "", 0, None)
                     ELSE Res("reset_password_query", TRUE, "", "", 0, None)
        /\ UNCHANGED <<succeeded_with, users_storage, uuids, mailer, users, tokens, issued,
                       now, verified_with>>

ResetPasswordCommit(session) ==
    \E request \in inflight :
        /\ request.session = session
        /\ request.op = "reset_password"
        /\ \E r \in {reset_password_commit(users, tokens, request)} :
            /\ users' = r.users
            /\ tokens' = r.tokens
            /\ result' = r.result
        /\ inflight' = inflight \ {request}
        /\ succeeded_with' = Append(succeeded_with, request.token_value)
        /\ UNCHANGED <<users_storage, uuids, mailer, issued, now, verified_with>>

\* the settings the process starts with
EmailInit ==
    /\ users = <<>>
    /\ tokens = <<>>
    /\ issued = {}
    /\ now = 0
    /\ result = Res("init", TRUE, "", "", 0, None)
    /\ verified_with = {}
    /\ users_storage = <<>>
    /\ uuids = 0
    /\ mailer \in {EmailService(enabled, smtp_host, smtp_login) :
                        enabled \in BOOLEAN, smtp_host \in BOOLEAN,
                        smtp_login \in BOOLEAN}
    /\ inflight = {}
    /\ succeeded_with = <<>>

SendVerificationEmail(reachable, transport) ==
    \E r \in {send_verification_email(mailer, reachable, transport)} :
        /\ r.mailer.contacts <= MaxContacts
        /\ mailer' = r.mailer
        /\ result' = Res("send_verification_email", r.returned, r.raised, r.logged, 0, None)
        /\ UNCHANGED <<succeeded_with, users_storage, uuids, inflight, users, tokens, issued, now, verified_with>>

SendWelcomeEmail(transport) ==
    \E r \in {send_welcome_email(mailer, transport)} :
        /\ r.mailer.contacts <= MaxContacts
        /\ mailer' = r.mailer
        /\ result' = Res("send_welcome_email", r.returned, r.raised, r.logged, 0, None)
        /\ UNCHANGED <<succeeded_with, users_storage, uuids, inflight, users, tokens, issued, now, verified_with>>

SendPasswordResetEmail(transport) ==
    \E r \in {send_password_reset_email(mailer, transport)} :
        /\ r.mailer.contacts <= MaxContacts
        /\ mailer' = r.mailer
        /\ result' = Res("send_password_reset_email", r.returned, r.raised, r.logged, 0, None)
        /\ UNCHANGED <<succeeded_with, users_storage, uuids, inflight, users, tokens, issued, now, verified_with>>

\* time passes: by the lifetime of a reset token or of a verification token
Tick(hours) ==
    /\ (now \div VERIFICATION_EXPIRES_HOURS) + (now % VERIFICATION_EXPIRES_HOURS) < MaxTicks
    /\ now' = now + hours
    /\ result' = Res("tick", TRUE, "", "", 0, None)
    /\ UNCHANGED <<succeeded_with, users_storage, uuids, mailer, inflight, users, tokens, issued, verified_with>>

\* AuthService over the two tables, the clock moving by the hour (the
\* lifetime of a reset token)
Next ==
    \/ \E signup_data \in SignupRequests, db_bound \in BOOLEAN, email_sent \in BOOLEAN :
            Signup(signup_data, db_bound, email_sent)
    \/ \E token_value \in TokenValues : VerifyEmail(token_value)
    \/ \E email \in Emails : RequestPasswordReset(email)
    \/ \E reset_data \in ResetRequests : ResetPassword(reset_data)
    \/ CleanupExpiredTokens
    \/ Tick(RESET_EXPIRES_HOURS)

Spec == Init /\ [][Next]_vars

\* Email verification, the clock moving by the hour and by the day (the
\* lifetime of a verification token)
VerifyNext ==
    \/ \E signup_data \in SignupRequests, db_bound \in BOOLEAN, email_sent \in BOOLEAN :
            Signup(signup_data, db_bound, email_sent)
    \/ \E token_value \in TokenValues : VerifyEmail(token_value)
    \/ CleanupExpiredTokens
    \/ \E hours \in {RESET_EXPIRES_HOURS, VERIFICATION_EXPIRES_HOURS} : Tick(hours)

VerifySpec == Init /\ [][VerifyNext]_vars

\* Sessions: signing up, verifying, logging in and deactivating the account
LoginNext ==
    \/ \E signup_data \in SignupRequests, db_bound \in BOOLEAN, email_sent \in BOOLEAN :
            Signup(signup_data, db_bound, email_sent)
    \/ \E token_value \in TokenValues : VerifyEmail(token_value)
    \/ \E login_data \in LoginRequests : Login(login_data)
    \/ \E credentials \in issued \cup {Garbage} : DeleteAccount(credentials)
    \/ \E hours \in {RESET_EXPIRES_HOURS, VERIFICATION_EXPIRES_HOURS} : Tick(hours)

LoginSpec == Init /\ [][LoginNext]_vars

\* The users routes: signing up, verifying, logging in, updating the profile and
\* asking for the verification email again
ProfileNext ==
    \/ \E signup_data \in ProfileSignupRequests, db_bound \in BOOLEAN, email_sent \in BOOLEAN :
            Signup(signup_data, db_bound, email_sent)
    \/ \E token_value \in TokenValues : VerifyEmail(token_value)
    \/ \E login_data \in ProfileLoginRequests : Login(login_data)
    \/ \E credentials \in issued \cup {Garbage}, profile_update \in ProfilePatches :
            UpdateProfile(credentials, profile_update)
    \/ \E credentials \in issued \cup {Garbage}, email_sent \in BOOLEAN :
            ResendVerificationEmail(credentials, email_sent)

ProfileSpec == Init /\ [][ProfileNext]_vars

\* main.py: the endpoints over users_storage
MainNext ==
    \/ \E signup_data \in MainSignupRequests, timedelta_bound \in BOOLEAN :
            MainSignup(signup_data, timedelta_bound)
    \/ \E token \in MainTokenValues : MainVerifyEmail(token)
    \/ \E email \in MainEmails, timedelta_bound \in BOOLEAN :
            ResendVerification(email, timedelta_bound)
    \/ \E hours \in {RESET_EXPIRES_HOURS, VERIFICATION_EXPIRES_HOURS} : Tick(hours)

MainSpec == Init /\ [][MainNext]_vars

\* Passwords: signing up and resetting with passwords of every strength
PasswordNext ==
    \/ \E signup_data \in SignupRequestsSent, db_bound \in BOOLEAN, email_sent \in BOOLEAN :
            Signup(signup_data, db_bound, email_sent)
    \/ \E email \in Emails : RequestPasswordReset(email)
    \/ \E reset_data \in ResetRequestsSent : ResetPassword(reset_data)

PasswordSpec == Init /\ [][PasswordNext]_vars

\* Concurrent sessions: password-reset requests whose _create_token interleave
RaceNext ==
    \/ \E signup_data \in SignupRequests, db_bound \in BOOLEAN, email_sent \in BOOLEAN :
            Signup(signup_data, db_bound, email_sent)
    \/ \E email \in Emails : RequestPasswordResetQuery(email)
    \/ \E session \in 1..MaxInflight : RequestPasswordResetCommit(session)
    \/ \E reset_data \in ResetRequests : ResetPassword(reset_data)

RaceSpec == Init /\ [][RaceNext]_vars

\* Concurrent sessions: verify_email and reset_password requests of one user
\* that interleave
ConsumeNext ==
    \/ \E signup_data \in ConsumeSignupRequests, db_bound \in BOOLEAN, email_sent \in BOOLEAN :
            Signup(signup_data, db_bound, email_sent)
    \/ \E email \in {Email_a} : RequestPasswordReset(email)
    \/ \E token_value \in TokenValues : VerifyEmailQuery(token_value)
    \/ \E session \in 1..MaxInflight : VerifyEmailLoadUser(session)
    \/ \E session \in 1..MaxInflight : VerifyEmailCommit(session)
    \/ \E reset_data \in ResetRequests : ResetPasswordQuery(reset_data)
    \/ \E session \in 1..MaxInflight : ResetPasswordCommit(session)

ConsumeSpec == Init /\ [][ConsumeNext]_vars

\* Changing the password: one user signs up, verifies, asks for resets, resets,
\* logs in and deactivates the account
ChangeNext ==
    \/ \E signup_data \in ConsumeSignupRequests, db_bound \in BOOLEAN, email_sent \in BOOLEAN :
            Signup(signup_data, db_bound, email_sent)
    \/ \E token_value \in TokenValues : VerifyEmail(token_value)
    \/ \E email \in {Email_a} : RequestPasswordReset(email)
    \/ \E reset_data \in ChangeResetRequests : ResetPassword(reset_data)
    \/ \E login_data \in LoginRequests : Login(login_data)
    \/ \E credentials \in issued \cup {Garbage} : DeleteAccount(credentials)
    \/ Tick(RESET_EXPIRES_HOURS)

ChangeSpec == Init /\ [][ChangeNext]_vars

\* The email component under every configuration and transport outcome
EmailNext ==
    \/ \E reachable \in BOOLEAN, transport \in TransportOutcomes :
            SendVerificationEmail(reachable, transport)
    \/ \E transport \in TransportOutcomes : SendWelcomeEmail(transport)
    \/ \E transport \in TransportOutcomes : SendPasswordResetEmail(transport)

EmailSpec == EmailInit /\ [][EmailNext]_vars

----------------------------------------------------------------------------
(* Properties *)

\* C1: a user never holds two unused tokens of one type: each creation marks
\* the user's earlier unused tokens of the type used, so that the newest token
\* is the only unused one.
C1_OneUnusedTokenPerType ==
    /\ \A u \in 1..Len(users) : \A ty \in TokenType :
          Cardinality({i \in 1..Len(tokens) :
                          /\ tokens[i].user_id = u
                          /\ tokens[i].token_type = ty
                          /\ ~tokens[i].is_used}) <= 1
    /\ \A u \in 1..Len(users) : \A ty \in {EMAIL_VERIFICATION, PASSWORD_RESET} :
          LET created == _create_token(tokens, u, ty, RESET_EXPIRES_HOURS, now)
          IN  {i \in 1..Len(created) :
                  /\ created[i].user_id = u
                  /\ created[i].token_type = ty
                  /\ ~created[i].is_used} = {Len(created)}

\* a second reset request has marked the first request's token used: the
\* password was never reset and the first token has not expired
C1_Witness ==
    /\ result.op = "request_password_reset"
    /\ \E i \in 1..Len(tokens) : \E j \in 1..Len(tokens) :
          /\ i < j
          /\ tokens[i].user_id = tokens[j].user_id
          /\ tokens[i].token_type = PASSWORD_RESET
          /\ tokens[j].token_type = PASSWORD_RESET
          /\ tokens[i].is_used
          /\ ~tokens[j].is_used
          /\ tokens[i].expires_at >= now
          /\ users[tokens[i].user_id].hashed_password = get_password_hash(ValidPass1)

\* C2: once verify_email has succeeded with a token, verify_email with the
\* same token fails with the invalid-token error and changes nothing, whatever
\* ran in between.
C2_VerificationTokenSingleUse ==
    \A token_value \in verified_with :
        LET again == verify_email(users, tokens, now, token_value)
        IN  /\ ~again.result.ok
            /\ again.result.error = InvalidVerificationToken
            /\ again.users = users
            /\ again.tokens = tokens

\* verify_email has been refused as invalid after it had succeeded with every
\* verification token there is
C2_Witness ==
    /\ result.op = "verify_email"
    /\ result.error = InvalidVerificationToken
    /\ verified_with # {}
    /\ \A i \in 1..Len(tokens) :
          tokens[i].token_type = EMAIL_VERIFICATION => tokens[i].token_value \in verified_with

\* C3: with the right password, login fails with AccountInactive for an
\* inactive user, else with EmailNotVerified for an unverified user, else it
\* issues an access token for the user and sets last_login to now, which is not
\* before its previous value.
C3_LoginGating ==
    \A login_data \in LoginRequests : \A user \in LoginMatches(users, login_data.email) :
        users[user].hashed_password = [scheme |-> "bcrypt", of |-> login_data.password] =>
            LET r == login(users, issued, now, login_data, user)
            IN  IF ~users[user].is_active
                THEN /\ ~r.result.ok
                     /\ r.result.error = AccountInactive
                     /\ r.users = users
                     /\ r.issued = issued
                ELSE IF ~users[user].email_verified
                THEN /\ ~r.result.ok
                     /\ r.result.error = EmailNotVerified
                     /\ r.users = users
                     /\ r.issued = issued
                ELSE /\ r.result.ok
                     /\ r.result.uid = user
                     /\ r.result.value \in r.issued
                     /\ decode_access_token(r.result.value, r.issued, now) = user
                     /\ r.users[user].last_login = now
                     /\ r.users[user].last_login >= users[user].last_login
                     /\ r.users = [users EXCEPT ![user].last_login = now]

\* a second login, later than the user's first one, has succeeded
C3_Witness ==
    /\ result.op = "login"
    /\ result.ok
    /\ users[result.uid].last_login = now
    /\ \E earlier \in issued :
          /\ earlier.sub = result.uid
          /\ earlier.exp < result.value.exp

\* C4: login with a password that is not the user's fails exactly as login
\* with an identifier no user has: the same InvalidCredentials error, nothing
\* changed.
C4_SameErrorUnknownUserWrongPassword ==
    \A login_data \in LoginRequests :
        LET unknown == login(users, issued, now, login_data, 0)
        IN  /\ ~unknown.result.ok
            /\ unknown.result.error = InvalidCredentials
            /\ unknown.users = users
            /\ unknown.issued = issued
            /\ \A user \in 1..Len(users) :
                  users[user].hashed_password.of # login_data.password =>
                      login(users, issued, now, login_data, user) = unknown

\* login has failed with InvalidCredentials while both accounts exist and one
\* of them is verified
C4_Witness ==
    /\ result.op = "login"
    /\ result.error = InvalidCredentials
    /\ Len(users) = MaxUsers
    /\ \E user \in 1..Len(users) : users[user].email_verified

\* C5: request_password_reset returns the same successful message for a
\* registered and an unregistered email; for a registered one it adds a
\* PASSWORD_RESET token of that user expiring one hour later, for an
\* unregistered one it adds nothing.
C5_ResetRequestSameMessage ==
    \A email \in Emails :
        LET r == request_password_reset(users, tokens, now, email)
            owners == {u \in 1..Len(users) : users[u].email = email}
        IN  /\ r.result = Res("request_password_reset", TRUE, "", ResetLinkMessage, 0, None)
            /\ owners = {} => r.tokens = tokens
            /\ \A u \in owners :
                  /\ Len(r.tokens) = Len(tokens) + 1
                  /\ r.tokens[Len(r.tokens)].user_id = u
                  /\ r.tokens[Len(r.tokens)].token_type = PASSWORD_RESET
                  /\ r.tokens[Len(r.tokens)].expires_at = now + 1
                  /\ ~r.tokens[Len(r.tokens)].is_used

\* a reset has been requested for a registered email: its token is the newest
C5_Witness ==
    /\ result.op = "request_password_reset"
    /\ result.message = ResetLinkMessage
    /\ Len(tokens) > 0
    /\ tokens[Len(tokens)].token_type = PASSWORD_RESET
    /\ tokens[Len(tokens)].expires_at = now + 1
    /\ ~tokens[Len(tokens)].is_used

\* C6: no two users share an email: signup with a registered email fails with
\* EmailAlreadyRegistered and leaves both tables as they were.
C6_DuplicateEmailRejected ==
    /\ \A i \in 1..Len(users) : \A j \in 1..Len(users) :
          users[i].email = users[j].email => i = j
    /\ \A signup_data \in SignupRequests : \A db_bound \in BOOLEAN : \A email_sent \in BOOLEAN :
          (\E i \in 1..Len(users) : users[i].email = signup_data.email) =>
              LET r == signup(users, tokens, now, signup_data, db_bound, email_sent)
              IN  /\ ~r.result.ok
                  /\ r.result.error = EmailAlreadyRegistered
                  /\ r.users = users
                  /\ r.tokens = tokens

\* a signup has been refused for its email
C6_Witness ==
    /\ result.op = "signup"
    /\ result.error = EmailAlreadyRegistered
    /\ Len(users) > 0

\* C7: delete_account leaves the row in place with is_active false, the row
\* stays inactive from then on, and login with the right password for an
\* inactive user fails with AccountInactive.
C7_DeleteAccountDeactivates ==
    /\ [](\A credentials \in issued \cup {Garbage} :
            LET r == delete_account(users, issued, now, credentials)
            IN  r.result.ok =>
                    /\ r.result.uid \in 1..Len(users)
                    /\ decode_access_token(credentials, issued, now) = r.result.uid
                    /\ r.users = [users EXCEPT ![r.result.uid].is_active = FALSE])
    /\ [][\A user \in 1..Len(users) :
            ~users[user].is_active => Len(users') >= user /\ ~users'[user].is_active]_vars
    /\ [](\A user \in 1..Len(users) : \A login_data \in LoginRequests :
            /\ ~users[user].is_active
            /\ users[user].hashed_password = [scheme |-> "bcrypt", of |-> login_data.password]
            => login(users, issued, now, login_data, user).result.error = AccountInactive)

\* after delete_account, a login with the right password has been refused
C7_Witness ==
    /\ result.op = "login"
    /\ result.error = AccountInactive
    /\ \E user \in 1..Len(users) : ~users[user].is_active

\* C8: a password-reset token expires one hour after its creation:
\* reset_password with a token whose expiry has passed fails with TokenExpired
\* and changes nothing, and before the expiry it succeeds (given a strong
\* password).
C8_ResetTokenLifetime ==
    /\ \A email \in Emails :
          (\E u \in 1..Len(users) : users[u].email = email) =>
              LET created == request_password_reset(users, tokens, now, email).tokens
              IN  created[Len(created)].expires_at = now + 1
    /\ \A reset_data \in ResetRequests : \A i \in 1..Len(tokens) :
          /\ tokens[i].token_value = reset_data.token
          /\ tokens[i].token_type = PASSWORD_RESET
          /\ ~tokens[i].is_used
          => LET r == reset_password(users, tokens, now, reset_data)
             IN  /\ now > tokens[i].expires_at =>
                        /\ ~r.result.ok
                        /\ r.result.error = ResetTokenExpired
                        /\ r.users = users
                        /\ r.tokens = tokens
                 /\ now < tokens[i].expires_at /\ validate_password_strength(reset_data.password)[1] =>
                        /\ r.result.ok
                        /\ r.result.uid = tokens[i].user_id
                        /\ r.users[tokens[i].user_id].hashed_password
                               = [scheme |-> "bcrypt", of |-> reset_data.password]

\* reset_password has refused a token two hours after its creation
C8_Witness ==
    /\ result.op = "reset_password"
    /\ result.error = ResetTokenExpired
    /\ \E i \in 1..Len(tokens) :
          /\ tokens[i].token_type = PASSWORD_RESET
          /\ ~tokens[i].is_used
          /\ now > tokens[i].expires_at

\* C9: after a successful reset_password the user holds no unused token of any
\* type, and the tokens of the other users are as they were.
C9_ResetConsumesAllTokens ==
    \A reset_data \in ResetRequests :
        LET r == reset_password(users, tokens, now, reset_data)
        IN  r.result.ok =>
                /\ Len(r.tokens) = Len(tokens)
                /\ \A i \in 1..Len(tokens) :
                      IF tokens[i].user_id = r.result.uid
                      THEN r.tokens[i] = [tokens[i] EXCEPT !.is_used = TRUE]
                      ELSE r.tokens[i] = tokens[i]

\* a reset has consumed the verification token of its unverified user, and
\* another user's token is still unused
C9_Witness ==
    /\ result.op = "reset_password"
    /\ result.ok
    /\ ~users[result.uid].email_verified
    /\ \E i \in 1..Len(tokens) :
          /\ tokens[i].user_id = result.uid
          /\ tokens[i].token_type = EMAIL_VERIFICATION
          /\ tokens[i].is_used
    /\ \E j \in 1..Len(tokens) :
          /\ tokens[j].user_id # result.uid
          /\ ~tokens[j].is_used

\* C10: verify_email fails with InvalidToken when no unused verification token
\* has the value, else with TokenExpired when the token has expired, else with
\* AlreadyVerified when its owner is verified, each time changing nothing;
\* otherwise it marks the token used, the owner verified, and raises the
\* owner's profile completion to 40 unless it is higher.
C10_VerifyEmailEffects ==
    \A token_value \in TokenValues :
        LET r == verify_email(users, tokens, now, token_value)
            found == {i \in 1..Len(tokens) :
                        /\ tokens[i].token_value = token_value
                        /\ tokens[i].token_type = EMAIL_VERIFICATION
                        /\ ~tokens[i].is_used}
            refused(error) ==
                /\ ~r.result.ok
                /\ r.result.error = error
                /\ r.users = users
                /\ r.tokens = tokens
        IN  IF found = {} THEN refused(InvalidVerificationToken)
            ELSE \A i \in found :
                LET owner == tokens[i].user_id
                    previous == users[owner].profile_completion_percentage
                IN  IF tokens[i].expires_at # NoTime /\ now > tokens[i].expires_at
                    THEN refused(VerificationTokenExpired)
                    ELSE IF users[owner].email_verified
                    THEN refused(EmailAlreadyVerified)
                    ELSE /\ r.result.ok
                         /\ r.result.uid = owner
                         /\ r.tokens = [tokens EXCEPT ![i].is_used = TRUE]
                         /\ r.users = [users EXCEPT
                                ![owner].email_verified = TRUE,
                                ![owner].profile_completion_percentage =
                                    IF previous >= 40 THEN previous ELSE 40]

\* verify_email has succeeded in the last hour of the token's life
C10_Witness ==
    /\ result.op = "verify_email"
    /\ result.ok
    /\ users[result.uid].email_verified
    /\ users[result.uid].profile_completion_percentage = 40
    /\ \E i \in 1..Len(tokens) :
          /\ tokens[i].user_id = result.uid
          /\ tokens[i].token_type = EMAIL_VERIFICATION
          /\ tokens[i].is_used
          /\ tokens[i].expires_at = now

\* C11: right after a successful signup the new user is active, unverified,
\* has profile completion 30 and owns exactly one unused email_verification
\* token, which expires 24 hours later; signup returns the user and a status
\* message, and no access token.
C11_SignupCreatesUnverifiedUser ==
    \A signup_data \in SignupRequests : \A db_bound \in BOOLEAN : \A email_sent \in BOOLEAN :
        LET r == signup(users, tokens, now, signup_data, db_bound, email_sent)
            new == Len(users) + 1
        IN  r.result.ok =>
                /\ Len(r.users) = new
                /\ SubSeq(r.users, 1, Len(users)) = users
                /\ r.users[new].email = signup_data.email
                /\ r.users[new].is_active
                /\ ~r.users[new].email_verified
                /\ r.users[new].profile_completion_percentage = 30
                /\ \E i \in 1..Len(r.tokens) :
                      /\ r.tokens[i].expires_at = now + 24
                      /\ {j \in 1..Len(r.tokens) :
                              /\ r.tokens[j].user_id = new
                              /\ r.tokens[j].token_type = EMAIL_VERIFICATION
                              /\ ~r.tokens[j].is_used} = {i}
                /\ r.result.uid = new
                /\ r.result.message \in {SignupSentMessage, SignupNotSentMessage}
                /\ r.result.value = None
                /\ r.result.value \notin [sub : 1..new, exp : Int]

\* a signup has just succeeded: the newest user is as signup made them
C11_Witness ==
    /\ result.op = "signup"
    /\ result.ok
    /\ result.uid = Len(users)
    /\ ~users[result.uid].email_verified
    /\ users[result.uid].profile_completion_percentage = 30
    /\ \E i \in 1..Len(tokens) :
          /\ tokens[i].user_id = result.uid
          /\ tokens[i].token_type = EMAIL_VERIFICATION
          /\ ~tokens[i].is_used
          /\ tokens[i].expires_at = now + 24

\* C12: when the verification email is not sent, signup succeeds all the same:
\* the user and the token are stored exactly as when it is sent, and only the
\* returned message differs, saying that the email could not be sent.
C12_SignupSurvivesEmailFailure ==
    \A signup_data \in SignupRequests : \A db_bound \in BOOLEAN :
        LET sent == signup(users, tokens, now, signup_data, db_bound, TRUE)
            unsent == signup(users, tokens, now, signup_data, db_bound, FALSE)
        IN  /\ unsent.users = sent.users
            /\ unsent.tokens = sent.tokens
            /\ unsent.result.ok = sent.result.ok
            /\ unsent.result.uid = sent.result.uid
            /\ sent.result.ok =>
                  /\ Len(unsent.users) = Len(users) + 1
                  /\ Len(unsent.tokens) = Len(tokens) + 1
                  /\ sent.result.message = SignupSentMessage
                  /\ unsent.result.message = SignupNotSentMessage
                  /\ unsent.result.message # sent.result.message

\* a signup has succeeded although its email was not sent
C12_Witness ==
    /\ result.op = "signup"
    /\ result.ok
    /\ result.message = SignupNotSentMessage
    /\ result.uid = Len(users)
    /\ \E i \in 1..Len(tokens) :
          /\ tokens[i].user_id = result.uid
          /\ tokens[i].token_type = EMAIL_VERIFICATION
          /\ ~tokens[i].is_used

\* C13: request authentication answers, in this order: 401 for a token that
\* does not decode, 401 for a subject without a user, 403 for an inactive user,
\* and in the verified variant 403 for an active user whose email is not
\* verified; otherwise it returns the user.  Checked for the tokens login has
\* issued, a token no key of the service signed, and tokens the service
\* signed for every subject, with or without a row.
C13_AuthenticationOrder ==
    LET signed == {create_access_token(sub, FALSE, now) : sub \in 1..(MaxUsers + 1)}
        iss == issued \cup signed
    IN  \A credentials \in iss \cup {Garbage} :
            LET plain == get_current_user(users, iss, now, credentials)
                strict == get_current_verified_user(users, iss, now, credentials)
                sub == credentials.sub
            IN  IF credentials = Garbage \/ now > credentials.exp
                THEN plain = <<401, 0>> /\ strict = <<401, 0>>
                ELSE IF sub \notin 1..Len(users)
                THEN plain = <<401, 0>> /\ strict = <<401, 0>>
                ELSE IF ~users[sub].is_active
                THEN plain = <<403, 0>> /\ strict = <<403, 0>>
                ELSE IF ~users[sub].email_verified
                THEN plain = <<200, sub>> /\ strict = <<403, 0>>
                ELSE plain = <<200, sub>> /\ strict = <<200, sub>>

\* a route has refused with 403 the unexpired token of a user who had logged
\* in and was deactivated since
C13_Witness ==
    /\ result.op = "delete_account"
    /\ ~result.ok
    /\ result.value = 403
    /\ \E credentials \in issued :
          /\ now <= credentials.exp
          /\ ~users[credentials.sub].is_active

\* C14: POST /users/resend-verification asks for authentication only: for an
\* authenticated, active, unverified caller it issues a fresh verification token
\* and sends the email; for a verified caller it answers 400 AlreadyVerified.
\* Checked for the tokens login issued and for tokens the service signed for
\* each user.
C14_ResendNeedsAuthenticationOnly ==
    LET signed == {create_access_token(sub, FALSE, now) : sub \in 1..Len(users)}
        iss == issued \cup signed
    IN  \A credentials \in iss :
            LET caller == get_current_user(users, iss, now, credentials)
                r == resend_verification_email(users, tokens, iss, now, credentials, TRUE)
            IN  caller[1] = 200 =>
                    IF users[caller[2]].email_verified
                    THEN /\ ~r.result.ok
                         /\ r.result.value = 400
                         /\ r.result.error = EmailAlreadyVerified
                    ELSE /\ r.result.ok
                         /\ r.users[caller[2]].verification_token # None

\* C16: update_profile with a company_name for a creator leaves the field as it
\* was and succeeds; with a TikTok handle for a brand or agency it leaves the
\* handle as it was and succeeds; changing a creator's TikTok handle to a value
\* of another user fails with DuplicateHandle and changes nothing.
C16_RoleGatedProfileUpdate ==
    \A credentials \in issued : \A profile_update \in ProfilePatches :
        LET caller == get_current_verified_user(users, issued, now, credentials)
            u == caller[2]
            r == update_profile(users, issued, now, credentials, profile_update)
            only(field) == \A other \in PatchFields \ {field} : ~profile_update[other].set
        IN  caller[1] = 200 =>
                /\ users[u].role = CREATOR /\ profile_update.company_name.set
                   /\ only("company_name")
                   => r.result.ok /\ r.users = users
                /\ users[u].role \in {BRAND, AGENCY} /\ profile_update.tiktok_handle.set
                   /\ only("tiktok_handle")
                   => r.result.ok /\ r.users[u].tiktok_handle = users[u].tiktok_handle
                /\ /\ users[u].role = CREATOR
                   /\ profile_update.tiktok_handle.set
                   /\ profile_update.tiktok_handle.value # users[u].tiktok_handle
                   /\ \E i \in 1..Len(users) :
                         i # u /\ users[i].tiktok_handle = profile_update.tiktok_handle.value
                   => /\ ~r.result.ok
                      /\ r.result.error = DuplicateHandle
                      /\ r.users = users

\* C17: no two users hold the same TikTok handle: the signup of a creator whose
\* handle another user holds fails with DuplicateHandle and creates no user.
C17_TikTokHandlesUnique ==
    /\ \A i \in 1..Len(users) : \A j \in 1..Len(users) :
          users[i].tiktok_handle # None /\ users[i].tiktok_handle = users[j].tiktok_handle
          => i = j
    /\ \A signup_data \in ProfileSignupRequests : \A db_bound \in BOOLEAN : \A email_sent \in BOOLEAN :
          /\ signup_data.role = CREATOR
          /\ signup_data.tiktok_username # None
          /\ \E i \in 1..Len(users) : users[i].tiktok_handle = signup_data.tiktok_username
          /\ ~ \E i \in 1..Len(users) : users[i].email = signup_data.email
          => LET r == signup(users, tokens, now, signup_data, db_bound, email_sent)
             IN  /\ ~r.result.ok
                 /\ r.result.error = DuplicateHandle
                 /\ r.users = users
                 /\ r.tokens = tokens

\* C15: GET /api/v1/auth/resend-verification answers every email with the same
\* success response, whether the email belongs to no account, to an unverified
\* account or to a verified one, and it replaces the verification token with a
\* fresh one in the unverified case only.
C15_ResendGenericResponse ==
    \A email \in MainEmails, other \in MainEmails, timedelta_bound \in BOOLEAN :
        LET r == resend_verification(users_storage, uuids, now, email, timedelta_bound)
            o == resend_verification(users_storage, uuids, now, other, timedelta_bound)
            user == first_user({i \in 1..Len(users_storage) :
                                    users_storage[i].email = email})
            unverified == user # 0 /\ ~users_storage[user].emailVerified
        IN  /\ r.result.ok
            /\ r.result = o.result
            /\ IF unverified
               THEN /\ r.users_storage[user].verificationToken
                            # users_storage[user].verificationToken
                    /\ \A i \in 1..Len(users_storage) :
                            r.users_storage[user].verificationToken
                                # users_storage[i].verificationToken
               ELSE r.users_storage = users_storage

\* C18: with the mail-enabled flag off, every send operation (verification,
\* welcome, password reset) returns true and opens no connection to an SMTP
\* server; and under every configuration and transport outcome a send
\* operation returns a boolean and lets no exception through.
C18_DisabledMailReportsSuccess ==
    \A reachable \in BOOLEAN, transport \in TransportOutcomes :
        \A r \in {send_verification_email(mailer, reachable, transport),
                  send_welcome_email(mailer, transport),
                  send_password_reset_email(mailer, transport)} :
            /\ r.returned \in BOOLEAN
            /\ r.raised = ""
            /\ ~mailer.enabled =>
                    /\ r.returned = TRUE
                    /\ r.mailer.contacts = mailer.contacts

\* C18, the part the component keeps: a send operation returns a boolean and
\* lets no exception through, and with the flag off it never reports success
EmailNeverRaises ==
    \A reachable \in BOOLEAN, transport \in TransportOutcomes :
        \A r \in {send_verification_email(mailer, reachable, transport),
                  send_welcome_email(mailer, transport),
                  send_password_reset_email(mailer, transport)} :
            /\ r.returned \in BOOLEAN
            /\ r.raised = ""
            /\ ~mailer.enabled => r.returned = FALSE

\* C19: validate_password_strength checks length >= 8, an uppercase letter, a
\* lowercase letter and a digit in this order and returns (false, message of the
\* first rule violated), and (true, "") exactly when all four hold; signup and
\* reset_password reject a password exactly when the check fails: with the
\* message of the check when they reach it, and never with such a message for a
\* password that passes.
C19_PasswordStrengthOrder ==
    LET PwMessages == <<PwTooShort, PwNoUpper, PwNoLower, PwNoDigit>>
        holds(password) ==
            << Len(password) >= 8,
               \E i \in 1..Len(password) : password[i] \in Range(UpperChars),
               \E i \in 1..Len(password) : password[i] \in LowerChars,
               \E i \in 1..Len(password) : password[i] \in Range(DigitChars) >>
        first_violated(h) == CHOOSE k \in 1..4 : ~h[k] /\ \A j \in 1..(k - 1) : h[j]
        verdict(h) == IF \A k \in 1..4 : h[k] THEN <<TRUE, "">>
                      ELSE <<FALSE, PwMessages[first_violated(h)]>>
        Expected == [password \in PasswordSamples |-> verdict(holds(password))]
        expected(password) == Expected[password]
    IN  /\ \A password \in PasswordSamples :
                validate_password_strength(password) = expected(password)
        /\ \A signup_data \in PasswordSignupRequests, db_bound \in BOOLEAN,
                email_sent \in BOOLEAN :
                LET r == signup(users, tokens, now, signup_data, db_bound, email_sent)
                    e == expected(signup_data.password)
                IN  IF e[1]
                    THEN r.result.error \notin Range(PwMessages)
                    ELSE /\ ~r.result.ok
                         /\ r.users = users /\ r.tokens = tokens
                         /\ ~email_registered(users, signup_data.email)
                                => r.result.error = e[2]
        /\ \A reset_data \in PasswordResetRequests :
                LET r == reset_password(users, tokens, now, reset_data)
                    e == expected(reset_data.password)
                    token == FindToken(tokens, reset_data.token, PASSWORD_RESET)
                IN  IF e[1]
                    THEN /\ r.result.error \notin Range(PwMessages)
                         /\ (token # 0 /\ ~is_expired(tokens[token], now)) => r.result.ok
                    ELSE /\ ~r.result.ok
                         /\ r.users = users /\ r.tokens = tokens
                         /\ (token # 0 /\ ~is_expired(tokens[token], now))
                                => r.result.error = e[2]

\* reached: reset_password has refused a password without a digit presented
\* with a token it would have accepted, for a user signup accepted with a
\* strong password
C19_Witness ==
    /\ result.op = "reset_password"
    /\ result.error = PwNoDigit
    /\ \E i \in 1..Len(tokens) :
            /\ tokens[i].token_type = PASSWORD_RESET
            /\ ~tokens[i].is_used
            /\ ~is_expired(tokens[i], now)
    /\ \E i \in 1..Len(users) :
            users[i].hashed_password
                = get_password_hash(PasswordOf(<<"A", "a", "1">>, MIN_PASSWORD_LENGTH))

\* C20: _create_token takes no row lock.  A session whose query ran before
\* another session committed a token of the same user and type does not mark
\* that token used: after its commit the user has more than one unused token
\* of the type (one more than the unused tokens its query missed), and a state
\* in which two such tokens are stored is reached.
C20_InterleavedCreateTokenKeepsMissedTokens ==
    \A request \in inflight :
        LET missed == existing_tokens(tokens, request.user_id, request.token_type)
                        \ request.existing_tokens
            after == _create_token_commit(tokens, request, now)
            unused == existing_tokens(after, request.user_id, request.token_type)
        IN  /\ Cardinality(unused) = Cardinality(missed) + 1
            /\ missed # {} => Cardinality(unused) > 1

\* reached: both sessions have committed and the user holds two unused
\* password-reset tokens
C20_Witness ==
    /\ inflight = {}
    /\ result.op = "request_password_reset"
    /\ \E i \in 1..Len(tokens), j \in 1..Len(tokens) :
            /\ i # j
            /\ tokens[i].user_id = tokens[j].user_id
            /\ tokens[i].token_type = PASSWORD_RESET
            /\ tokens[j].token_type = PASSWORD_RESET
            /\ ~tokens[i].is_used
            /\ ~tokens[j].is_used

\* C21: cleanup_expired_tokens marks used exactly the tokens that are unused
\* and whose expiry is before the current time and returns their number; a
\* token that is unexpired, has no expiry or was already used stays as it is,
\* no token is added, removed or otherwise changed, the user rows stay as they
\* are, and a second run at the same instant returns 0.
C21_CleanupMarksExactlyExpired ==
    /\ [](\A toks \in {tokens,
                        Append(tokens, [user_id |-> 1, token_type |-> "api_key",
                                        token_value |-> 0, expires_at |-> NoTime,
                                        is_used |-> FALSE])} :
            LET r == cleanup_expired_tokens(toks, now)
                due == {i \in 1..Len(toks) : /\ ~toks[i].is_used
                                             /\ toks[i].expires_at # NoTime
                                             /\ toks[i].expires_at < now}
                again == cleanup_expired_tokens(r.tokens, now)
            IN  /\ Len(r.tokens) = Len(toks)
                /\ \A i \in 1..Len(toks) :
                        r.tokens[i] = IF i \in due
                                      THEN [toks[i] EXCEPT !.is_used = TRUE]
                                      ELSE toks[i]
                /\ r.result.value = Cardinality(due)
                /\ again.result.value = 0
                /\ again.tokens = r.tokens)
    /\ [][result'.op = "cleanup_expired_tokens" =>
            /\ users' = users
            /\ tokens' = cleanup_expired_tokens(tokens, now).tokens
            /\ result'.value = cleanup_expired_tokens(tokens, now).result.value]_vars

\* reached: a cleanup has marked an expired token and left an unexpired unused
\* token as it was
C21_Witness ==
    /\ result.op = "cleanup_expired_tokens"
    /\ result.value >= 1
    /\ \E i \in 1..Len(tokens) : tokens[i].is_used /\ tokens[i].expires_at < now
    /\ \E i \in 1..Len(tokens) : ~tokens[i].is_used /\ tokens[i].expires_at >= now

\* C22: _generate_username returns, for every set of existing users, a username
\* no existing user holds: the base name when it is free, otherwise the base
\* name followed by the smallest suffix 1, 2, 3, ... that is free; and no two
\* users share a username.
C22_UsernameGeneration ==
    /\ \A signup_data \in SignupRequests \cup ProfileSignupRequests, db_bound \in BOOLEAN :
            LET g == _generate_username(users, db_bound, signup_data.email,
                                        signup_data.role, signup_data.company_name)
                base == _generate_username(<<>>, TRUE, signup_data.email,
                                           signup_data.role, signup_data.company_name).username
                held(name) == \E i \in 1..Len(users) : users[i].username = name
            IN  /\ ~g.raised
                /\ ~held(g.username)
                /\ \/ g.username = base
                   \/ /\ held(base)
                      /\ \E n \in 1..Len(users) :
                            /\ g.username = base \o Str(n)
                            /\ \A m \in 1..(n - 1) : held(base \o Str(m))
    /\ \A i \in 1..Len(users), j \in 1..Len(users) :
            users[i].username = users[j].username => i = j

\* C22, the loop alone: once the name db resolves, the method returns the base
\* name or the base name with the smallest free suffix
UsernameLoopFindsSmallestFree ==
    \A signup_data \in SignupRequests \cup ProfileSignupRequests :
        LET g == _generate_username(users, TRUE, signup_data.email,
                                    signup_data.role, signup_data.company_name)
            base == _generate_username(<<>>, TRUE, signup_data.email,
                                       signup_data.role, signup_data.company_name).username
            held(name) == \E i \in 1..Len(users) : users[i].username = name
        IN  /\ ~g.raised
            /\ ~held(g.username)
            /\ \/ g.username = base
               \/ /\ held(base)
                  /\ \E n \in 1..Len(users) :
                        /\ g.username = base \o Str(n)
                        /\ \A m \in 1..(n - 1) : held(base \o Str(m))

\* C23: update_profile never changes the caller's email or role, whatever the
\* patch carries, and it leaves the fields absent from the patch as they are.
C23_UpdateKeepsEmailAndRole ==
    \A credentials \in issued : \A profile_update \in ProfilePatches :
        LET caller == get_current_verified_user(users, issued, now, credentials)
            u == caller[2]
            r == update_profile(users, issued, now, credentials, profile_update)
        IN  caller[1] = 200 =>
                /\ r.users[u].email = users[u].email
                /\ r.users[u].role = users[u].role
                /\ \A field \in DOMAIN users[u] :
                        (field \notin PatchFields \/ ~profile_update[field].set)
                            => r.users[u][field] = users[u][field]
                /\ \A i \in 1..Len(users) : i # u => r.users[i] = users[i]

\* C23, the part the route keeps: it changes no row but the caller's and no
\* field but those the patch carries
UpdateTouchesOnlyPatchedFields ==
    \A credentials \in issued : \A profile_update \in ProfilePatches :
        LET caller == get_current_verified_user(users, issued, now, credentials)
            u == caller[2]
            r == update_profile(users, issued, now, credentials, profile_update)
        IN  caller[1] = 200 =>
                /\ \A field \in DOMAIN users[u] :
                        (field \notin PatchFields \/ ~profile_update[field].set)
                            => r.users[u][field] = users[u][field]
                /\ \A i \in 1..Len(users) : i # u => r.users[i] = users[i]

\* C24 as stated: under concurrent requests each token is consumed successfully
\* at most once: no token value is succeeded with twice, and a request whose
\* token another request has consumed in the meantime fails with the
\* invalid-token error.
C24_TokenConsumedAtMostOnce ==
    /\ \A i \in 1..Len(succeeded_with), j \in 1..Len(succeeded_with) :
            succeeded_with[i] = succeeded_with[j] => i = j
    /\ \A request \in inflight :
            (\E k \in 1..Len(succeeded_with) : succeeded_with[k] = request.token_value) =>
                LET l == verify_email_load_user(users, tokens, request)
                    r == IF request.op = "reset_password"
                         THEN reset_password_commit(users, tokens, request).result
                         ELSE IF request.user_loaded
                         THEN verify_email_commit(users, tokens, request).result
                         ELSE IF l.loaded
                         THEN verify_email_commit(users, tokens, l.request).result
                         ELSE Res("verify_email", FALSE, l.error, "", 0, None)
                IN  /\ ~r.ok
                    /\ r.error \in {InvalidVerificationToken, InvalidResetToken}

\* C24, amended: token consumption is not serialized.  A request whose query
\* found the token unused is not stopped by another request consuming the token
\* in the meantime: reset_password succeeds and writes its password,
\* verify_email succeeds unless it loads the user after the user was verified
\* (then it fails with AlreadyVerified), and neither fails with the
\* invalid-token error; only a request whose query runs after the token was
\* marked used fails with the invalid-token error.
C24_InterleavedConsumptionNotSerialized ==
    /\ \A request \in inflight :
            tokens[request.token].is_used =>
                LET user == tokens[request.token].user_id
                    l == verify_email_load_user(users, tokens, request)
                    reset == reset_password_commit(users, tokens, request)
                    verify == verify_email_commit(users, tokens, l.request)
                IN  IF request.op = "reset_password"
                    THEN /\ reset.result.ok
                         /\ reset.users[user].hashed_password
                                = get_password_hash(request.password)
                    ELSE IF request.user_loaded
                    THEN verify_email_commit(users, tokens, request).result.ok
                    ELSE IF users[user].email_verified
                    THEN ~l.loaded /\ l.error = EmailAlreadyVerified
                    ELSE l.loaded /\ verify.result.ok
    /\ \A i \in 1..Len(tokens) :
            tokens[i].is_used =>
                /\ verify_email_query(tokens, now, tokens[i].token_value).error
                        = InvalidVerificationToken
                /\ reset_password_query(tokens, now,
                                        [token |-> tokens[i].token_value,
                                         password |-> Passvalid2]).error
                        = InvalidResetToken

\* reached: two requests have succeeded with the same token value
C24_Witness ==
    \E i \in 1..Len(succeeded_with), j \in 1..Len(succeeded_with) :
        i < j /\ succeeded_with[i] = succeeded_with[j]

\* C25: a reset_password that fails (unknown or used token, expired token,
\* weak new password) changes nothing: every token keeps its is_used value and
\* every user their password hash; a token refused only for a weak password is
\* accepted afterwards with a strong one.
C25_FailedResetChangesNothing ==
    \A reset_data \in ResetRequests :
        LET r == reset_password(users, tokens, now, reset_data)
            token == FindToken(tokens, reset_data.token, PASSWORD_RESET)
            retry == reset_password(r.users, r.tokens, now,
                                    [token |-> reset_data.token, password |-> Passvalid2])
        IN  ~r.result.ok =>
                /\ r.users = users
                /\ r.tokens = tokens
                /\ r.result.error \in {InvalidResetToken, ResetTokenExpired,
                                        PwTooShort, PwNoUpper, PwNoLower, PwNoDigit}
                /\ r.result.error = InvalidResetToken <=> token = 0
                /\ r.result.error \in {PwTooShort, PwNoUpper, PwNoLower, PwNoDigit}
                        => /\ retry.result.ok
                           /\ retry.tokens[token].is_used

\* reached: reset_password has refused a weak password, and the token it was
\* presented with is still unused and unexpired
C25_Witness ==
    /\ result.op = "reset_password"
    /\ result.error = PwNoUpper
    /\ \E i \in 1..Len(tokens) :
            /\ tokens[i].token_type = PASSWORD_RESET
            /\ ~tokens[i].is_used
            /\ ~is_expired(tokens[i], now)
            /\ reset_password(users, tokens, now,
                              [token |-> tokens[i].token_value,
                               password |-> Passvalid2]).result.ok

\* C26: login checks the password before the account's status: with a wrong
\* password it fails with InvalidCredentials whether the account is active or
\* not, verified or not, so AccountInactive and EmailNotVerified are answered
\* only to the right password; and a failed login changes neither last_login
\* nor any token.
C26_PasswordBeforeStatus ==
    /\ [](\A login_data \in LoginRequests :
            \A user \in LoginMatches(users, login_data.email) \cup {0} :
                LET r == login(users, issued, now, login_data, user)
                    right == /\ user # 0
                             /\ users[user].hashed_password
                                    = [scheme |-> "bcrypt", of |-> login_data.password]
                IN  /\ ~right => /\ ~r.result.ok
                                 /\ r.result.error = InvalidCredentials
                    /\ r.result.error \in {AccountInactive, EmailNotVerified} => right
                    /\ ~r.result.ok => r.users = users /\ r.issued = issued)
    /\ [][(result'.op = "login" /\ ~result'.ok) =>
            /\ tokens' = tokens
            /\ issued' = issued
            /\ \A i \in 1..Len(users) : users'[i].last_login = users[i].last_login]_vars

\* reached: a login has failed with InvalidCredentials while every account is
\* deactivated or unverified, one of them deactivated
C26_Witness ==
    /\ result.op = "login"
    /\ result.error = InvalidCredentials
    /\ Len(users) = MaxUsers
    /\ \A i \in 1..Len(users) : ~users[i].is_active \/ ~users[i].email_verified
    /\ \E i \in 1..Len(users) : ~users[i].is_active
    /\ \E i \in 1..Len(users) : users[i].is_active

\* C27: token consumption is irreversible: a token that is used stays used, no
\* step deletes a token or changes its owner, type, value or expiry, and a
\* verified user never becomes unverified.
C27_ConsumptionIrreversible ==
    [][/\ Len(tokens') >= Len(tokens)
       /\ \A i \in 1..Len(tokens) :
            /\ tokens'[i].user_id = tokens[i].user_id
            /\ tokens'[i].token_type = tokens[i].token_type
            /\ tokens'[i].token_value = tokens[i].token_value
            /\ tokens'[i].expires_at = tokens[i].expires_at
            /\ tokens[i].is_used => tokens'[i].is_used
       /\ Len(users') >= Len(users)
       /\ \A i \in 1..Len(users) :
            users[i].email_verified => users'[i].email_verified]_vars

\* reached: a cleanup has run over a table that holds a used token of a
\* verified user and has marked an expired token
C27_Witness ==
    /\ result.op = "cleanup_expired_tokens"
    /\ result.value >= 1
    /\ \E i \in 1..Len(tokens) :
            /\ tokens[i].token_type = EMAIL_VERIFICATION
            /\ tokens[i].is_used
            /\ users[tokens[i].user_id].email_verified

\* C28: when the operations run one after another, no verified user owns an
\* unused email_verification token, so verify_email never answers
\* AlreadyVerified, whatever token value is presented.
C28_VerifiedOwnsNoUnusedVerificationToken ==
    /\ \A i \in 1..Len(tokens) :
            (tokens[i].token_type = EMAIL_VERIFICATION /\ ~tokens[i].is_used)
                => ~users[tokens[i].user_id].email_verified
    /\ ~(result.op = "verify_email" /\ result.error = EmailAlreadyVerified)
    /\ \A token_value \in TokenValues :
            verify_email(users, tokens, now, token_value).result.error
                # EmailAlreadyVerified

\* reached: the consumed token of a verified user has been presented again and
\* was refused as invalid
C28_Witness ==
    /\ result.op = "verify_email"
    /\ result.error = InvalidVerificationToken
    /\ \E i \in 1..Len(tokens) :
            /\ tokens[i].token_type = EMAIL_VERIFICATION
            /\ tokens[i].is_used
            /\ users[tokens[i].user_id].email_verified
            /\ ~is_expired(tokens[i], now)

\* C29: the optional dependency resolves to a user only when the mandatory
\* one accepts the same credentials: no user for absent or undecodable
\* credentials or an unknown subject, and never a user whose is_active is false.
C29_OptionalOnlyWhenMandatoryAccepts ==
    \A credentials \in issued \cup {Garbage, NoCredentials} :
        LET user == get_optional_current_user(users, issued, now, credentials)
        IN  /\ user \in 0..Len(users)
            /\ user # 0 =>
                    /\ get_current_user(users, issued, now, credentials) = <<200, user>>
                    /\ users[user].is_active

\* the optional dependency resolves to the row of the decoded subject, active
\* or not, and to no user where the mandatory one answers 401
OptionalResolvesDecodedSubject ==
    \A credentials \in issued \cup {Garbage, NoCredentials} :
        LET user == get_optional_current_user(users, issued, now, credentials)
            current_user == get_current_user(users, issued, now, credentials)
        IN  /\ user \in 0..Len(users)
            /\ current_user[1] = 401 <=> user = 0
            /\ current_user[1] = 200 => user = current_user[2]
            /\ current_user[1] = 403 => (user = credentials.sub /\ ~users[user].is_active)

\* C30: a reset_password that succeeds with p for an active, verified user
\* whose password q differs from p makes login with p succeed and login with
\* q fail with InvalidCredentials; and the stored hash stays as the reset left
\* it until another successful reset_password of that user.
C30_ResetSwitchesPassword ==
    /\ [](\A reset_data \in ChangeResetRequests :
            LET r == reset_password(users, tokens, now, reset_data)
                user == r.result.uid
                p == reset_data.password
                attempt(password) ==
                    login(r.users, issued, now,
                          [email |-> users[user].email, password |-> password,
                           remember_me |-> FALSE], user).result
            IN  (/\ r.result.ok
                 /\ users[user].is_active
                 /\ users[user].email_verified
                 /\ ~verify_password(p, users[user].hashed_password))
                    => /\ LoginMatches(r.users, users[user].email) = {user}
                       /\ attempt(p).ok
                       /\ \A q \in ChangePasswords :
                            verify_password(q, users[user].hashed_password)
                                => attempt(q).error = InvalidCredentials)
    /\ [][\A i \in 1..Len(users) :
            users'[i].hashed_password # users[i].hashed_password
                => /\ result'.op = "reset_password"
                   /\ result'.ok
                   /\ result'.uid = i]_vars

\* reached: after a reset to Passvalid2 the active, verified user has logged
\* in with it
C30_Witness ==
    /\ result.op = "login"
    /\ result.ok
    /\ users[result.uid].hashed_password = get_password_hash(Passvalid2)
    /\ \E i \in 1..Len(tokens) :
            /\ tokens[i].token_type = PASSWORD_RESET
            /\ tokens[i].user_id = result.uid
            /\ tokens[i].is_used

====
